---------------------------- MODULE Spec2Model ----------------------------
(***************************************************************************)
(* Retreat planner: the ranking and cart engine (ranking_agent.py,         *)
(* cart_agent.py), the requirements analyst and the checkout agent, the    *)
(* session object that drives them (crew/retreat_crew.py) and the API      *)
(* that keeps the sessions (main.py).                                      *)
(*                                                                         *)
(* Money is held in whole cents: discovery_agent.py produces every price   *)
(* either from a "$d.dd" match or from round(x, 2).  Python's float        *)
(* arithmetic is modelled by exact rational arithmetic followed by         *)
(* round(x, 2).  The two agree whenever the exact value is not halfway     *)
(* between two cents; at an exact half the float result depends on the     *)
(* low-order bits of the operands and goes either way (0.2 * 0.025 rounds  *)
(* up, 0.4 * 0.0875 rounds down), so every rounding takes the direction of *)
(* a tie as a nondeterministic input (TieChoices for the cart's tax, fee   *)
(* and total; ScoreTies for item and package scores).                      *)
(***************************************************************************)
EXTENDS Integers, Sequences, FiniteSets, TLC

VARIABLES requirements, discovered_items, ranked_packages, cart, last,
          session_id, crew_instances, request

vars == <<requirements, discovered_items, ranked_packages, cart, last,
          session_id, crew_instances, request>>

\* the id of the session, the registry of sessions and the request being
\* served (main.py): nothing but the API's endpoints reads or writes them
api == <<session_id, crew_instances, request>>

-----------------------------------------------------------------------------
(* Bounds of the model *)

\* attendees range over 1..MaxAttendees
MaxAttendees == 2
\* discovered items per category handed to rank: 0..MaxPerCategory
MaxPerCategory == 3
\* prices handed to price_to_score: up to MaxPriceSteps grains of PriceGrain cents
MaxPriceSteps == 40
PriceGrain == 125

-----------------------------------------------------------------------------
(* Program constants *)

\* tax_rate = 0.0875 = 7/80 and service_fee_rate = 0.025 = 2/80
RateDen == 80
TaxRate80 == 7
FeeRate80 == 2

\* default stay when the duration string holds no integer
DefaultDays == 2

-----------------------------------------------------------------------------
(* Optional values: Python's None is the empty sequence, a value x is <<x>> *)

None == <<>>
Some(x) == <<x>>

CategoryList == <<"flights", "hotels", "meeting_rooms", "catering">>
CategorySet == {CategoryList[i] : i \in 1..Len(CategoryList)}

Max(a, b) == IF a >= b THEN a ELSE b
Min(a, b) == IF a <= b THEN a ELSE b

RECURSIVE SumOver(_, _)
\* sum(f[x] for x in S)
SumOver(f, S) ==
    IF S = {} THEN 0
    ELSE LET x == CHOOSE y \in S : TRUE
         IN f[x] + SumOver(f, S \ {x})

RECURSIVE ProdOver(_, _)
\* the product of f[x] for x in S
ProdOver(f, S) ==
    IF S = {} THEN 1
    ELSE LET x == CHOOSE y \in S : TRUE
         IN f[x] * ProdOver(f, S \ {x})

-----------------------------------------------------------------------------
(* round(x, 2) of the non-negative amount num/den cents.  up decides the   *)
(* direction when num/den is exactly halfway between two cents.            *)

Round2(num, den, up) ==
    LET q == num \div den
        r == num % den
    IN IF 2 * r < den THEN q
       ELSE IF 2 * r > den THEN q + 1
       ELSE IF up THEN q + 1 ELSE q

TieChoices == [taxes : BOOLEAN, fees : BOOLEAN, total : BOOLEAN]

-----------------------------------------------------------------------------
(* Items.  item_id is <<category, n>>: n >= 1 for a discovered item, 0 for *)
(* the placeholder "<category>_placeholder".  price is in cents, rating10  *)
(* is trust_score.rating in tenths of a star.  capacity is NoValue when    *)
(* metadata holds no capacity.                                             *)

NoValue == 0 - 1
NoId == <<"", 0>>
MissingId == <<"missing", 1>>

BasePrice == [flights |-> 1224, hotels |-> 2461, meeting_rooms |-> 1044, catering |-> 1362]
PriceStep == [flights |-> 280, hotels |-> 205, meeting_rooms |-> 300, catering |-> 465]
BaseRating == [flights |-> 48, hotels |-> 42, meeting_rooms |-> 42, catering |-> 40]

\* The i-th discovered item of a category.  Items i and i+2 differ in id only.
Catalog(category, i) ==
    LET k == (i - 1) % 2
    IN [item_id      |-> <<category, i>>,
        category     |-> category,
        price        |-> BasePrice[category] + k * PriceStep[category],
        availability |-> TRUE,
        rating10     |-> BaseRating[category] - 6 * k,
        amenities    |-> IF category = "hotels" THEN 3 + 4 * k ELSE 0,
        capacity     |-> IF category = "meeting_rooms" THEN 1 + 2 * k ELSE NoValue,
        equipment    |-> IF category = "meeting_rooms" THEN 4 - 3 * k ELSE 0,
        dietary      |-> IF category = "catering" THEN 5 - 4 * k ELSE 0]

\* the discovered list: the first n[c] catalogue items of each category c
ItemList(n) ==
    LET of(c) == [i \in 1..n[c] |-> Catalog(c, i)]
    IN of("flights") \o of("hotels") \o of("meeting_rooms") \o of("catering")

_create_placeholder_item(category) ==
    [item_id      |-> <<category, 0>>,
     category     |-> category,
     price        |-> 0,
     availability |-> FALSE,
     rating10     |-> 0,
     amenities    |-> 0,
     capacity     |-> NoValue,
     equipment    |-> 0,
     dietary      |-> 0]

\* Items a caller offers as the replacement of a swap: the test's cheaper
\* flight, and a hotel already in the catalogue (another category, and an id
\* another line may hold).
SwapItems ==
    { [Catalog("flights", 2) EXCEPT !.item_id = <<"flights", 9>>, !.price = 1200],
      Catalog("hotels", 1) }

-----------------------------------------------------------------------------
(* Requirements.  duration is the string as a sequence of characters.      *)

Digits == {"0", "1", "2", "3", "4", "5", "6", "7", "8", "9"}
DigitVal == [d \in Digits |->
               CASE d = "0" -> 0 [] d = "1" -> 1 [] d = "2" -> 2 [] d = "3" -> 3
                 [] d = "4" -> 4 [] d = "5" -> 5 [] d = "6" -> 6 [] d = "7" -> 7
                 [] d = "8" -> 8 [] d = "9" -> 9]

Durations ==
    { <<"3", " ", "d">>,      \* "3 d"
      <<"0", " ", "d">>,      \* "0 d"
      <<"d", "a", "y">>,      \* no integer
      <<"d", "1", "0">> }     \* "d10"

Budgets == {50}

ReqChoices ==
    [attendees : 1..MaxAttendees, budget : Budgets, duration : Durations]

RECURSIVE DigitRun(_, _, _)
\* int() of the digits of s from position i up to the first non-digit
DigitRun(s, i, acc) ==
    IF i > Len(s) \/ s[i] \notin Digits THEN acc
    ELSE DigitRun(s, i + 1, acc * 10 + DigitVal[s[i]])

\* re.search(r'(\d+)', duration): the first maximal run of digits, else 2
NumDays(duration) ==
    LET hits == {i \in 1..Len(duration) : duration[i] \in Digits}
    IN IF hits = {} THEN DefaultDays
       ELSE DigitRun(duration, CHOOSE i \in hits : \A j \in hits : i <= j, 0)

\* a faulty variant: a hotel room for every attendee
OneRoomEach(category, req) ==
    LET attendees == req.attendees
        num_days == NumDays(req.duration)
    IN CASE category = "flights" -> attendees
         [] category = "hotels" -> attendees * num_days
         [] category = "meeting_rooms" -> num_days
         [] category = "catering" -> attendees * num_days
         [] OTHER -> 1

_calculate_quantity(category, req) ==
    LET attendees == req.attendees
        num_days == NumDays(req.duration)
    IN CASE category = "flights" -> attendees
         [] category = "hotels" -> ((attendees \div 2) + (attendees % 2)) * num_days
         [] category = "meeting_rooms" -> num_days
         [] category = "catering" -> attendees * num_days
         [] OTHER -> 1

-----------------------------------------------------------------------------
(* CartAgent.  A cart is [cart_id, items, subtotal, taxes, fees, total,    *)
(* savings, optimization_applied, optimization_note]; items maps the       *)
(* categories present to lines [item, quantity, unit_price, subtotal].     *)
(* Amounts are cents.  The two optimization keys are "" while the cart has *)
(* none; the note "Cart optimized for <goal>" is held as its goal.  The    *)
(* timestamps created_at and modified_at are left out: the code writes     *)
(* them and reads them nowhere.                                            *)

\* the ids uuid4 may hand to a new cart
CartIds == {"cart_1", "cart_2"}

\* random.uniform(0.10, 0.15) in hundredths.  A call draws its uuid and its
\* percentage together: the one outcome is cart_1 with 0.10, the other cart_2
\* with 0.15.
savings_pct(cart_id) == IF cart_id = "cart_1" THEN 10 ELSE 15

\* the package's total_cost is the sum of its item prices (_score_package)
_calculate_savings(package_items, pct) ==
    LET total_cost == SumOver([c \in DOMAIN package_items |-> package_items[c].price],
                              DOMAIN package_items)
    IN IF total_cost > 0 THEN Some(Round2(total_cost * pct, 100, FALSE)) ELSE None

\* the keys of cart["items"] in dict order (the order build_cart inserted them)
LineOrder(items) == SelectSeq(CategoryList, LAMBDA c : c \in DOMAIN items)

\* subtotal, taxes, fees and total from the unrounded subtotal
TotalsOf(subtotal, ties) ==
    [subtotal |-> Round2(subtotal, 1, FALSE),
     taxes    |-> Round2(subtotal * TaxRate80, RateDen, ties.taxes),
     fees     |-> Round2(subtotal * FeeRate80, RateDen, ties.fees),
     total    |-> Round2(subtotal * RateDen + subtotal * TaxRate80
                           + subtotal * FeeRate80, RateDen, ties.total)]

\* a faulty variant: the savings drawn are taken off the total
BuildWithSavingsDeducted(cart_id, package_items, req, ties) ==
    LET raw == [c \in DOMAIN package_items |->
                   package_items[c].price * _calculate_quantity(c, req)]
        t == TotalsOf(SumOver(raw, DOMAIN raw), ties)
        savings == _calculate_savings(package_items, savings_pct(cart_id))
    IN [cart_id  |-> cart_id,
        items    |-> [c \in DOMAIN package_items |->
                         [item       |-> package_items[c],
                          quantity   |-> _calculate_quantity(c, req),
                          unit_price |-> package_items[c].price,
                          subtotal   |-> raw[c]]],
        subtotal |-> t.subtotal,
        taxes    |-> t.taxes,
        fees     |-> t.fees,
        total    |-> IF savings = None THEN t.total ELSE t.total - savings[1],
        savings  |-> savings,
        optimization_applied |-> "",
        optimization_note    |-> ""]

build_cart(cart_id, package_items, req, ties) ==
    LET cart_items == [c \in DOMAIN package_items |->
            LET item == package_items[c]
                quantity == _calculate_quantity(c, req)
            IN [item       |-> item,
                quantity   |-> quantity,
                unit_price |-> item.price,
                subtotal   |-> Round2(item.price * quantity, 1, FALSE)]]
        raw == [c \in DOMAIN package_items |->
                   package_items[c].price * _calculate_quantity(c, req)]
        t == TotalsOf(SumOver(raw, DOMAIN raw), ties)
    IN [cart_id  |-> cart_id,
        items    |-> cart_items,
        subtotal |-> t.subtotal,
        taxes    |-> t.taxes,
        fees     |-> t.fees,
        total    |-> t.total,
        savings  |-> _calculate_savings(package_items, savings_pct(cart_id)),
        optimization_applied |-> "",
        optimization_note    |-> ""]

\* a faulty variant: taxes, fees and total are taken from the subtotal the
\* cart held before
RecalculateOnStoredSubtotal(c, ties) ==
    LET line == [k \in DOMAIN c.items |-> c.items[k].subtotal]
        t == TotalsOf(c.subtotal, ties)
    IN [c EXCEPT !.subtotal = SumOver(line, DOMAIN line), !.taxes = t.taxes,
                 !.fees = t.fees, !.total = t.total]

\* a faulty variant: the subtotal is refreshed, taxes, fees and total are not
RecalculateSubtotalOnly(c, ties) ==
    LET line == [k \in DOMAIN c.items |-> c.items[k].subtotal]
    IN [c EXCEPT !.subtotal = SumOver(line, DOMAIN line)]

_recalculate_totals(c, ties) ==
    LET line == [k \in DOMAIN c.items |-> c.items[k].subtotal]
        t == TotalsOf(SumOver(line, DOMAIN line), ties)
    IN [c EXCEPT !.subtotal = t.subtotal, !.taxes = t.taxes,
                 !.fees = t.fees, !.total = t.total]

\* a faulty variant: an id on no line falls back to the first line
FindLineOrFirst(c, item_id) ==
    LET order == LineOrder(c.items)
        hits == {i \in 1..Len(order) : c.items[order[i]].item.item_id = item_id}
    IN IF order = <<>> THEN ""
       ELSE IF hits = {} THEN order[1]
       ELSE order[CHOOSE i \in hits : \A j \in hits : i <= j]

\* the first line, in dict order, whose item has this item_id; "" if none
FindLine(c, item_id) ==
    LET order == LineOrder(c.items)
        hits == {i \in 1..Len(order) : c.items[order[i]].item.item_id = item_id}
    IN IF hits = {} THEN ""
       ELSE order[CHOOSE i \in hits : \A j \in hits : i <= j]

\* a faulty variant: the line keeps the subtotal of the item it held
SwapKeepingLineSubtotal(c, modification, ties) ==
    LET item_id == modification.item_id
        new_item == modification.new_item
    IN IF item_id = NoId \/ new_item = None THEN c
       ELSE LET category == FindLine(c, item_id)
            IN IF category = "" THEN c
               ELSE _recalculate_totals(
                        [c EXCEPT !.items[category].item = new_item[1],
                                  !.items[category].unit_price = new_item[1].price],
                        ties)

_swap_item(c, modification, ties) ==
    LET item_id == modification.item_id
        new_item == modification.new_item
    IN IF item_id = NoId \/ new_item = None THEN c
       ELSE LET category == FindLine(c, item_id)
            IN IF category = "" THEN c
               ELSE LET quantity == c.items[category].quantity
                        new_price == new_item[1].price
                        swapped == [c EXCEPT !.items[category] =
                            [item       |-> new_item[1],
                             quantity   |-> quantity,
                             unit_price |-> new_price,
                             subtotal   |-> Round2(new_price * quantity, 1, FALSE)]]
                    IN _recalculate_totals(swapped, ties)

\* a faulty variant: the line is deleted and the totals are left as they were
RemoveWithoutRecalculation(c, modification, ties) ==
    LET category == FindLine(c, modification.item_id)
    IN IF modification.item_id = NoId \/ category = "" THEN c
       ELSE [c EXCEPT !.items = [k \in DOMAIN c.items \ {category} |-> c.items[k]]]

\* a faulty variant: every line whose item has the id is deleted
RemoveEveryMatch(c, modification, ties) ==
    LET item_id == modification.item_id
    IN IF item_id = NoId \/ FindLine(c, item_id) = "" THEN c
       ELSE _recalculate_totals(
                [c EXCEPT !.items =
                    [k \in {j \in DOMAIN c.items : c.items[j].item.item_id # item_id}
                        |-> c.items[k]]],
                ties)

_remove_item(c, modification, ties) ==
    LET item_id == modification.item_id
    IN IF item_id = NoId THEN c
       ELSE LET category == FindLine(c, item_id)
            IN IF category = "" THEN c
               ELSE _recalculate_totals(
                        [c EXCEPT !.items =
                            [k \in DOMAIN c.items \ {category} |-> c.items[k]]],
                        ties)

\* a faulty variant: the optimization drops the dearest line and recomputes
OptimizeByDroppingDearest(c, modification) ==
    LET dear == {k \in DOMAIN c.items :
                    \A j \in DOMAIN c.items : c.items[k].subtotal >= c.items[j].subtotal}
        kept == [c EXCEPT !.items = [k \in DOMAIN c.items \ dear |-> c.items[k]],
                          !.optimization_applied = modification.optimization_goal,
                          !.optimization_note = modification.optimization_goal]
    IN _recalculate_totals(kept, [taxes |-> FALSE, fees |-> FALSE, total |-> FALSE])

\* optimization_goal "" stands for a request that carries no goal
_optimize_cart(c, modification) ==
    LET goal == IF modification.optimization_goal = "" THEN "balanced"
                ELSE modification.optimization_goal
    IN [c EXCEPT !.optimization_applied = goal, !.optimization_note = goal]

modify(c, modification, ties) ==
    CASE modification.action = "swap" -> _swap_item(c, modification, ties)
      [] modification.action = "remove" -> _remove_item(c, modification, ties)
      [] modification.action = "optimize" -> _optimize_cart(c, modification)
      [] OTHER -> c
-----------------------------------------------------------------------------
(* RankingAgent.  A weight map is a dict: a function from names to         *)
(* integers; custom_weights is a dict of such dicts (the empty dict stands *)
(* for None as well: the code only tests it for truth).  Scores are held   *)
(* in hundredths of a point, as round(x, 2) leaves them.                   *)

EmptyDict == [x \in {} |-> 0]

\* d1.update(d2)
Update(d1, d2) == [k \in DOMAIN d1 \cup DOMAIN d2 |-> IF k \in DOMAIN d2 THEN d2[k] ELSE d1[k]]

\* d.get(k, default)
Get(d, k, default) == IF k \in DOMAIN d THEN d[k] ELSE default

\* custom_weights and custom_weights.get(k)
Truthy(custom_weights, k) == k \in DOMAIN custom_weights /\ DOMAIN custom_weights[k] # {}

default_category_weights ==
    [flights |-> [price_weight |-> 50, timing_weight |-> 25,
                  trust_weight |-> 15, comfort_weight |-> 10],
     hotels |-> [price_weight |-> 20, trust_weight |-> 40,
                 location_weight |-> 25, amenities_weight |-> 15],
     meeting_rooms |-> [price_weight |-> 25, capacity_weight |-> 35,
                        equipment_weight |-> 25, trust_weight |-> 15],
     catering |-> [price_weight |-> 30, trust_weight |-> 30,
                   dietary_weight |-> 25, service_weight |-> 15]]

default_category_importance ==
    [flights |-> 30, hotels |-> 40, meeting_rooms |-> 15, catering |-> 15]

\* the cap on generated packages
PackageCap == 50

\* round(x, 2) of num/den points, in hundredths; up decides an exact half
RoundScore(num, den, up) ==
    LET q == num \div den
        r == num % den
    IN 100 * q + Round2(100 * r, den, up)

\* num/den lies exactly halfway between two integers
IsHalf(num, den) == den > 0 /\ 2 * (num % den) = den

\* a score as the fraction n/d
Frac(n, d) == [n |-> n, d |-> d]

\* price in cents, budget in dollars
_calculate_price_score(price, budget) ==
    LET b == 100 * budget
    IN IF budget <= 0 THEN Frac(50, 1)
       ELSE IF 2 * price > b THEN Frac(Max(0, 100 * b - 150 * price), b)
       ELSE IF 10 * price > 3 * b THEN Frac(100 * b - 100 * price, b)
       ELSE Frac(100 * b - 50 * price, b)

\* the (score, weight) components of an item of a category, in the code's order
Components(item, category, req, weights) ==
    LET price_score == _calculate_price_score(item.price, req.budget)
        trust_score == Frac(item.rating10 * 2, 1)
    IN CASE category = "flights" ->
              << <<price_score, Get(weights, "price_weight", 50)>>,
                 <<Frac(75, 1), Get(weights, "timing_weight", 25)>>,
                 <<trust_score, Get(weights, "trust_weight", 15)>>,
                 <<Frac(70, 1), Get(weights, "comfort_weight", 10)>> >>
         [] category = "hotels" ->
              << <<price_score, Get(weights, "price_weight", 20)>>,
                 <<trust_score, Get(weights, "trust_weight", 40)>>,
                 <<Frac(85, 1), Get(weights, "location_weight", 25)>>,
                 <<Frac(Min(100, item.amenities * 12), 1),
                   Get(weights, "amenities_weight", 15)>> >>
         [] category = "meeting_rooms" ->
              LET capacity == IF item.capacity = NoValue THEN 50 ELSE item.capacity
                  required == req.attendees
                  capacity_score == IF capacity >= required THEN Frac(100, 1)
                                    ELSE Frac(capacity * 100, required)
              IN << <<price_score, Get(weights, "price_weight", 25)>>,
                    <<capacity_score, Get(weights, "capacity_weight", 35)>>,
                    <<Frac(Min(100, item.equipment * 25), 1),
                      Get(weights, "equipment_weight", 25)>>,
                    <<trust_score, Get(weights, "trust_weight", 15)>> >>
         [] category = "catering" ->
              << <<price_score, Get(weights, "price_weight", 30)>>,
                 <<trust_score, Get(weights, "trust_weight", 30)>>,
                 <<Frac(Min(100, item.dietary * 20), 1),
                   Get(weights, "dietary_weight", 25)>>,
                 <<Frac(80, 1), Get(weights, "service_weight", 15)>> >>
         [] OTHER ->
              << <<price_score, 50>>, <<trust_score, 50>> >>

\* weights = default_weights.get(category, {}), updated with the custom
\* weights of the category when there are any
WeightsFor(category, custom_weights) ==
    IF Truthy(custom_weights, category)
    THEN Update(Get(default_category_weights, category, EmptyDict),
                custom_weights[category])
    ELSE Get(default_category_weights, category, EmptyDict)

\* sum(score * weight) / sum(weight) over the components, as the fraction n/d
\* (d = 0 when the weights sum to zero)
WeightedMean(components) ==
    LET idx == DOMAIN components
        den == [i \in idx |-> components[i][1].d]
        common == ProdOver(den, idx)
        term == [i \in idx |->
                    components[i][1].n * (common \div den[i]) * components[i][2]]
        total_weight == SumOver([i \in idx |-> components[i][2]], idx)
    IN Frac(SumOver(term, idx), common * total_weight)

\* the unrounded score of an item
ItemScore(item, category, req, custom_weights) ==
    WeightedMean(Components(item, category, req,
                            WeightsFor(category, custom_weights)))

\* what an item's score is computed from: the item without its id
Scored(item) == [item EXCEPT !.item_id = NoId]

\* round(total_score / total_weight, 2) if total_weight > 0 else 0
RoundedItemScore(s, up) == IF s.d > 0 THEN RoundScore(s.n, s.d, up) ELSE 0

\* the item's score in hundredths.  Items that differ in id only score the
\* same; ties.items holds those whose score, if an exact half, rounds up.
_score_item(item, category, req, custom_weights, ties) ==
    RoundedItemScore(ItemScore(item, category, req, custom_weights),
                     Scored(item) \in ties.items)

\* the category scores of a package
CategoryScores(package, req, custom_weights, ties) ==
    [c \in DOMAIN package |-> _score_item(package[c], c, req, custom_weights, ties)]

\* the category importance in force
ImportanceFor(custom_weights) ==
    IF Truthy(custom_weights, "category_importance")
    THEN Update(default_category_importance, custom_weights["category_importance"])
    ELSE default_category_importance

\* sum(category_scores[cat] * importance[cat] / total_importance) as n/d
WeightedTotal(category_scores, importance) ==
    LET cats == DOMAIN category_scores
        summed == SumOver([c \in cats |-> Get(importance, c, 0)], cats)
        weighted == SumOver([c \in cats |->
                                category_scores[c] * Get(importance, c, 25)], cats)
    IN Frac(weighted, IF summed = 0 THEN 100 ELSE summed)

PackageScore(category_scores, custom_weights) ==
    WeightedTotal(category_scores, ImportanceFor(custom_weights))

\* round(final_score, 2), in hundredths
RoundedPackageScore(s, up) == Round2(s.n, s.d, up)

\* the scored package built from a package and its category scores
ScoredPackage(package, category_scores, custom_weights, ties) ==
    [package_id      |-> 0,
     final_score     |-> RoundedPackageScore(
                             PackageScore(category_scores, custom_weights),
                             category_scores \in ties.packages),
     category_scores |-> category_scores,
     items           |-> package,
     total_cost      |-> SumOver([c \in DOMAIN package |-> package[c].price],
                                 DOMAIN package),
     rank            |-> 0]

\* final_score is computed from the category scores alone; ties.packages
\* holds the category scores whose final score, if an exact half, rounds up
_score_package(package, req, custom_weights, ties) ==
    ScoredPackage(package, CategoryScores(package, req, custom_weights, ties),
                  custom_weights, ties)

\* items grouped by category, each group in list order
_group_by_category(items) ==
    [c \in {items[i].category : i \in 1..Len(items)} |->
        SelectSeq(items, LAMBDA it : it.category = c)]

\* itertools.product over the lists of the categories cats (a sequence), as a
\* sequence of category -> item maps: the last category varies fastest, so the
\* n-th combination takes from category cats[k] the item at the k-th digit of
\* n - 1 written in the mixed radix of the list lengths
Product(cats, grouped) ==
    LET size == [k \in 1..Len(cats) |-> Len(grouped[cats[k]])]
        later(k) == ProdOver(size, (k + 1)..Len(cats))
        total == ProdOver(size, 1..Len(cats))
    IN [n \in 1..total |->
           [c \in {cats[k] : k \in 1..Len(cats)} |->
               LET k == CHOOSE j \in 1..Len(cats) : cats[j] = c
               IN grouped[c][(((n - 1) \div later(k)) % size[k]) + 1]]]

\* a faulty variant: every combination is kept
GenerateWithoutCap(grouped) ==
    LET valid_categories ==
            SelectSeq(CategoryList,
                      LAMBDA c : c \in DOMAIN grouped /\ grouped[c] # <<>>)
    IN IF valid_categories = <<>> THEN <<>>
       ELSE Product(valid_categories, grouped)

_generate_packages(grouped) ==
    LET valid_categories ==
            SelectSeq(CategoryList,
                      LAMBDA c : c \in DOMAIN grouped /\ grouped[c] # <<>>)
    IN IF valid_categories = <<>> THEN <<>>
       ELSE LET packages == Product(valid_categories, grouped)
            IN SubSeq(packages, 1, Min(PackageCap, Len(packages)))

\* a faulty variant: the list is left in generation order
LeftUnsorted(s) == s

\* a faulty variant: the sort runs without reverse=True, lowest score first
SortAscending(s) ==
    LET key == [i \in 1..Len(s) |-> s[i].final_score]
        place == [i \in 1..Len(s) |->
                     1 + Cardinality({j \in 1..Len(s) :
                             \/ key[j] < key[i]
                             \/ key[j] = key[i] /\ j < i})]
    IN [p \in 1..Len(s) |-> s[CHOOSE i \in 1..Len(s) : place[i] = p]]

\* list.sort(key=final_score, reverse=True), which is stable: an element comes
\* after every element that scores more and after the earlier elements that
\* score the same
SortDesc(s) ==
    LET key == [i \in 1..Len(s) |-> s[i].final_score]
        place == [i \in 1..Len(s) |->
                     1 + Cardinality({j \in 1..Len(s) :
                             \/ key[j] > key[i]
                             \/ key[j] = key[i] /\ j < i})]
    IN [p \in 1..Len(s) |-> s[CHOOSE i \in 1..Len(s) : place[i] = p]]

\* a faulty variant: a category left empty stays empty
WithoutPlaceholders(grouped0) == grouped0

\* the grouped items with a placeholder list for every category left empty
WithPlaceholders(grouped0) ==
    [c \in DOMAIN grouped0 \cup CategorySet |->
        IF c \in DOMAIN grouped0 /\ grouped0[c] # <<>>
        THEN grouped0[c]
        ELSE << _create_placeholder_item(c) >>]

\* every package scored.  package_id is the package's place in generation
\* order: an id unique within the ranking, standing for the uuid
ScoreAll(packages, req, custom_weights, ties) ==
    [i \in 1..Len(packages) |->
        [_score_package(packages[i], req, custom_weights, ties)
            EXCEPT !.package_id = i]]

\* a faulty variant: the rank is the place the package had before the sort
NumberedBeforeSort(sorted) ==
    [i \in 1..Len(sorted) |-> [sorted[i] EXCEPT !.rank = sorted[i].package_id]]

\* pkg["rank"] = i + 1 for every package of the sorted list
Numbered(sorted) == [i \in 1..Len(sorted) |-> [sorted[i] EXCEPT !.rank = i]]

rank(items, req, custom_weights, ties) ==
    Numbered(SortDesc(ScoreAll(
        _generate_packages(WithPlaceholders(_group_by_category(items))),
        req, custom_weights, ties)))

\* The roundings of one rank call that fall on an exact half, and so the
\* directions the call may take: any set of the tied items, and with it any
\* set of the category scores whose final score is then tied.
NoTies == [items |-> {}, packages |-> {}]

TiedItems(items, req, custom_weights) ==
    LET grouped == WithPlaceholders(_group_by_category(items))
    IN UNION {{Scored(grouped[c][i]) : i \in {j \in 1..Len(grouped[c]) :
                   LET s == ItemScore(grouped[c][j], c, req, custom_weights)
                   IN s.d > 0 /\ IsHalf(100 * (s.n % s.d), s.d)}} : c \in DOMAIN grouped}

TiedPackages(items, req, custom_weights, item_ties) ==
    LET packages == _generate_packages(WithPlaceholders(_group_by_category(items)))
        scores == {CategoryScores(packages[i], req, custom_weights,
                                  [items |-> item_ties, packages |-> {}]) :
                      i \in 1..Len(packages)}
    IN {cs \in scores : LET s == PackageScore(cs, custom_weights)
                         IN IsHalf(s.n, s.d)}

ScoreTies(items, req, custom_weights) ==
    UNION {{[items |-> ui, packages |-> up] :
               up \in SUBSET TiedPackages(items, req, custom_weights, ui)} :
           ui \in SUBSET TiedItems(items, req, custom_weights)}

\* the lists one rank call may return
Rankings(items, req, custom_weights) ==
    {rank(items, req, custom_weights, t) : t \in ScoreTies(items, req, custom_weights)}

\* the carts one build_cart call may return
Carts(package_items, req) ==
    {build_cart(id, package_items, req, ties) : id \in CartIds, ties \in TieChoices}

-----------------------------------------------------------------------------
(* Requests.  A modification is the dict handed to modify: item_id NoId    *)
(* and new_item None stand for a key that is absent or None; weights is    *)
(* only read by adjust_weights.                                            *)

Goals == {"cost", "quality", "balanced", ""}

NoMod == [action |-> "", item_id |-> NoId, new_item |-> None,
          optimization_goal |-> "", weights |-> EmptyDict]

\* the item ids a caller may name: those on the cart's lines, one that is on
\* no line, and none at all
IdsFor(c) == {c.items[k].item.item_id : k \in DOMAIN c.items} \cup {MissingId, NoId}

\* the replacements a caller offers for the item it names: items of that
\* item's category; for a flight (and for an id on no line) any item, or none
Offers(id) ==
    {Some(x) : x \in {y \in SwapItems : y.category = id[1]}}
       \cup (IF id[1] \in {"flights", "missing", ""}
             THEN {Some(x) : x \in SwapItems} \cup {None} ELSE {})

SwapRequests(c) ==
    UNION {{[NoMod EXCEPT !.action = "swap", !.item_id = id, !.new_item = n] :
               n \in Offers(id)} : id \in IdsFor(c)}

RemoveRequests(c) ==
    {[NoMod EXCEPT !.action = "remove", !.item_id = id] : id \in IdsFor(c)}

OptimizeRequests ==
    {[NoMod EXCEPT !.action = "optimize", !.optimization_goal = g] : g \in Goals}

\* str(uuid.uuid4()), the id of a session; NoSession while there is none
NoSession == ""
SessionIds == {"s1"}

\* Checkout data: contact.name and contact.email (a string is a sequence of
\* characters, empty when the value is missing), terms_accepted,
\* payment.method and payment.po_number ("" when there is none)
ValidCheckout ==
    [name |-> <<"A">>, email |-> <<"a", "@", "b", ".", "c">>,
     terms_accepted |-> TRUE, method |-> "stripe", po_number |-> ""]

\* the checkout data a caller may send: valid, a purchase order without its
\* number, terms not accepted, and an address without a dot
CheckoutChoices ==
    { ValidCheckout,
      [ValidCheckout EXCEPT !.method = "po"],
      [ValidCheckout EXCEPT !.terms_accepted = FALSE],
      [ValidCheckout EXCEPT !.email = <<"a", "@", "b">>] }

\* what the last call was: the operation, its request, the line of the cart
\* (before the call) that the request's item_id names ("" if none), the
\* categories that cart held, the error the call raised ("" if none), the
\* checkout data it came with (None if none) and the confirmation a checkout
\* returned (None if none)
NoCall == [op |-> "init", mod |-> NoMod, line |-> "", lines |-> {}, error |-> "",
           checkout_data |-> None, confirmation |-> None]

Call(op, mod, line, lines) ==
    [op |-> op, mod |-> mod, line |-> line, lines |-> lines, error |-> "",
     checkout_data |-> None, confirmation |-> None]

Raised(op, mod) ==
    [op |-> op, mod |-> mod, line |-> "", lines |-> {}, error |-> "ValueError",
     checkout_data |-> None, confirmation |-> None]

\* the call, with the checkout data it came with
With(call, checkout_data) == [call EXCEPT !.checkout_data = Some(checkout_data)]

\* A request to the API as the client sent it: the endpoint, the session_id,
\* the package_id, the weights (a dict holding the keys the client gave), the
\* cart modification and the checkout data (None when there is no body)
NoModification == [action |-> "", item_id |-> NoId, new_item_id |-> NoId,
                   weights |-> EmptyDict, optimization_goal |-> ""]

NoRequest == [op |-> "", session_id |-> NoSession, package_id |-> 0,
              weights |-> EmptyDict, modification |-> NoModification,
              checkout_data |-> None]

-----------------------------------------------------------------------------
(* CheckoutAgent.  The payment and the bookings are simulated by the code:  *)
(* neither changes the cart.                                               *)

Has(s, ch) == \E i \in 1..Len(s) : s[i] = ch

\* the error _validate_checkout_data raises ("" if none)
_validate_checkout_data(checkout_data) ==
    IF checkout_data.name = <<>> THEN "ValueError"
    ELSE IF checkout_data.email = <<>> THEN "ValueError"
    ELSE IF ~Has(checkout_data.email, "@") \/ ~Has(checkout_data.email, ".")
         THEN "ValueError"
    ELSE IF ~checkout_data.terms_accepted THEN "ValueError"
    ELSE ""

\* payment_result["success"]
_process_payment(checkout_data) ==
    CASE checkout_data.method = "stripe" -> TRUE
      [] checkout_data.method = "invoice" -> TRUE
      [] checkout_data.method = "po" -> checkout_data.po_number # ""
      [] OTHER -> FALSE

\* the confirmation of one line of the cart
_book_with_retailer(category, cart_item) ==
    [category |-> category, status |-> "confirmed", item_total |-> cart_item.subtotal]

\* a faulty variant: the lines are confirmed, the amount is the subtotal
CheckoutChargingSubtotal(c, checkout_data) ==
    IF _validate_checkout_data(checkout_data) # "" \/ ~_process_payment(checkout_data)
    THEN [error |-> "ValueError", retailer_confirmations |-> <<>>, total_cost |-> 0]
    ELSE [error |-> "",
          retailer_confirmations |->
              [i \in 1..Len(LineOrder(c.items)) |->
                  _book_with_retailer(LineOrder(c.items)[i],
                                      c.items[LineOrder(c.items)[i]])],
          total_cost |-> c.subtotal]

\* the master confirmation, or the error raised.  The confirmations are a
\* list, one appended for every key of cart["items"] in dict order.
process_checkout(c, checkout_data) ==
    IF _validate_checkout_data(checkout_data) # ""
    THEN [error |-> "ValueError", retailer_confirmations |-> <<>>, total_cost |-> 0]
    ELSE IF ~_process_payment(checkout_data)
    THEN [error |-> "ValueError", retailer_confirmations |-> <<>>, total_cost |-> 0]
    ELSE [error |-> "",
          retailer_confirmations |->
              [i \in 1..Len(LineOrder(c.items)) |->
                  _book_with_retailer(LineOrder(c.items)[i],
                                      c.items[LineOrder(c.items)[i]])],
          total_cost |-> c.total]

-----------------------------------------------------------------------------
(* The cart agent on its own: build_cart on a package of discovered items  *)
(* (one item per category), then any sequence of modify calls.             *)

\* the packages the cart is built from: the first item of every category
SelectablePackages == {[c \in CategorySet |-> Catalog(c, 1)]}

CartInit ==
    /\ requirements \in {Some(r) : r \in ReqChoices}
    /\ discovered_items = None
    /\ ranked_packages = None
    /\ cart = None
    /\ last = NoCall
    /\ session_id = NoSession
    /\ crew_instances = {}
    /\ request = NoRequest

CartBuild ==
    \E p \in SelectablePackages :
      \E c2 \in Carts(p, requirements[1]) :
        /\ cart' = Some(c2)
        /\ last' = Call("build_cart", NoMod, "", {})
        /\ UNCHANGED <<api, requirements, discovered_items, ranked_packages>>

CartModify ==
    /\ cart # None
    /\ \E m \in SwapRequests(cart[1]) \cup RemoveRequests(cart[1]) \cup OptimizeRequests :
         \E c2 \in {modify(cart[1], m, ties) : ties \in TieChoices} :
           /\ cart' = Some(c2)
           /\ last' = Call("modify", m, FindLine(cart[1], m.item_id),
                           DOMAIN cart[1].items)
           /\ UNCHANGED <<api, requirements, discovered_items, ranked_packages>>

CartNext == CartBuild \/ CartModify

SpecCart == CartInit /\ [][CartNext]_vars

-----------------------------------------------------------------------------
(* RetreatPlannerCrew: one session.  Each method is an action; a call that  *)
(* raises leaves the session as it was.                                    *)

\* what the requirements analyst returns: the largest party, for "3 d"
CrewRequirements ==
    {r \in ReqChoices : r.attendees = MaxAttendees /\ r.duration = <<"3", " ", "d">>}

\* what discovery may return: nothing, one item per category, and a list
\* with two hotels and no meeting room
CrewItemLists ==
    { <<>>,
      ItemList([flights |-> 1, hotels |-> 1, meeting_rooms |-> 1, catering |-> 1]),
      ItemList([flights |-> 1, hotels |-> 2, meeting_rooms |-> 0, catering |-> 1]) }

\* the weights a caller may send: none, and hotels judged on amenities alone
CrewWeights ==
    { EmptyDict,
      [hotels |-> [price_weight |-> 0, trust_weight |-> 0,
                   location_weight |-> 0, amenities_weight |-> 100]] }

UnknownPackage == 0

\* next((p for p in ranked_packages if p["package_id"] == package_id), None)
SelectedPackage(packages, package_id) ==
    LET hits == {i \in 1..Len(packages) : packages[i].package_id = package_id}
    IN IF hits = {} THEN None
       ELSE Some(packages[CHOOSE i \in hits : \A j \in hits : i <= j])

\* a faulty variant: the package ranked last
BottomPackage(packages) == packages[Len(packages)]

\* self.ranked_packages[0]
TopPackage(packages) == packages[1]

\* the modifications a caller may send to modify_cart: the flight swapped for
\* the cheaper one, the hotel line (or a line that is not there) removed, an
\* optimization, and new weights
CrewRequests(c) ==
    {m \in SwapRequests(c) : /\ m.item_id[1] = "flights"
                              /\ m.new_item # None
                              /\ m.new_item[1].category = "flights"}
       \cup {m \in RemoveRequests(c) : m.item_id[1] \in {"hotels", "missing"}}
       \cup {[NoMod EXCEPT !.action = "optimize", !.optimization_goal = "cost"]}
       \cup {[NoMod EXCEPT !.action = "adjust_weights", !.weights = w] : w \in CrewWeights}

Init ==
    /\ requirements = None
    /\ discovered_items = None
    /\ ranked_packages = None
    /\ cart = None
    /\ last = NoCall
    /\ session_id \in SessionIds
    /\ crew_instances = {}
    /\ request = NoRequest

crew == <<requirements, discovered_items, ranked_packages, cart>>

\* rank raises TypeError: a weight it multiplies by is None
RaisesTypeError(custom_weights, req) ==
    \E c \in CategorySet :
        LET components == Components(_create_placeholder_item(c), c, req,
                                     WeightsFor(c, custom_weights))
        IN \E i \in DOMAIN components : components[i][2] = NoValue

\* the analysis returns requirements, or raises ValueError
run_requirements_analyst ==
    \/ \E r \in CrewRequirements :
          /\ requirements' = Some(r)
          /\ last' = Call("run_requirements_analyst", NoMod, "", {})
          /\ UNCHANGED <<discovered_items, ranked_packages, cart>>
    \/ /\ last' = Raised("run_requirements_analyst", NoMod)
       /\ UNCHANGED crew

\* a faulty variant: discovery runs whether or not there are requirements
DiscoveryUnguarded ==
    \E l \in CrewItemLists :
        /\ discovered_items' = Some(l)
        /\ last' = Call("run_discovery_agent", NoMod, "", {})
        /\ UNCHANGED <<requirements, ranked_packages, cart>>

run_discovery_agent ==
    IF requirements = None
    THEN /\ last' = Raised("run_discovery_agent", NoMod)
         /\ UNCHANGED crew
    ELSE \E l \in CrewItemLists :
            /\ discovered_items' = Some(l)
            /\ last' = Call("run_discovery_agent", NoMod, "", {})
            /\ UNCHANGED <<requirements, ranked_packages, cart>>

run_ranking_agent(custom_weights) ==
    LET mod == [NoMod EXCEPT !.weights = custom_weights]
    IN IF discovered_items = None \/ discovered_items = Some(<<>>)
       THEN /\ last' = Raised("run_ranking_agent", mod)
            /\ UNCHANGED crew
       ELSE IF RaisesTypeError(custom_weights, requirements[1])
       THEN /\ last' = [Raised("run_ranking_agent", mod) EXCEPT !.error = "TypeError"]
            /\ UNCHANGED crew
       ELSE \E ranked \in Rankings(discovered_items[1], requirements[1], custom_weights) :
               /\ ranked_packages' = Some(ranked)
               /\ last' = Call("run_ranking_agent", mod, "", {})
               /\ UNCHANGED <<requirements, discovered_items, cart>>

run_cart_agent(package_id) ==
    IF ranked_packages = None \/ ranked_packages = Some(<<>>)
    THEN /\ last' = Raised("run_cart_agent", NoMod)
         /\ UNCHANGED crew
    ELSE LET selected_package == SelectedPackage(ranked_packages[1], package_id)
         IN IF selected_package = None
            THEN /\ last' = Raised("run_cart_agent", NoMod)
                 /\ UNCHANGED crew
            ELSE \E c2 \in Carts(selected_package[1].items, requirements[1]) :
                    /\ cart' = Some(c2)
                    /\ last' = Call("run_cart_agent", NoMod, "", {})
                    /\ UNCHANGED <<requirements, discovered_items, ranked_packages>>

\* a faulty variant: a swap overwrites the item dict of the line in place,
\* and with it the item of every ranked package that shares the dict
RankedAfterSwapInPlace(packages, c, modification) ==
    LET category == FindLine(c, modification.item_id)
    IN IF \/ modification.action # "swap"
          \/ modification.item_id = NoId
          \/ modification.new_item = None
          \/ category = ""
       THEN packages
       ELSE [i \in DOMAIN packages |->
               [packages[i] EXCEPT !.items =
                   [k \in DOMAIN packages[i].items |->
                       IF packages[i].items[k] = c.items[category].item
                       THEN modification.new_item[1]
                       ELSE packages[i].items[k]]]]

\* The ranked packages after CartAgent.modify.  A line of the cart shares its
\* item dict with the package the cart was built from, but modify writes to
\* the cart dict and to cart["items"] alone (a new line dict on a swap, a key
\* deleted on a remove, the totals and the optimization keys): no item dict
\* and no package is written.
RankedAfterModify(packages, c, modification) == packages

modify_cart(modification) ==
    IF cart = None
    THEN /\ last' = Raised("modify_cart", NoMod)
         /\ UNCHANGED crew
    ELSE IF modification.action = "adjust_weights"
    THEN IF RaisesTypeError(modification.weights, requirements[1])
         THEN /\ last' = [Raised("modify_cart", modification) EXCEPT !.error = "TypeError"]
              /\ UNCHANGED crew
         ELSE \E ranked \in Rankings(discovered_items[1], requirements[1],
                                     modification.weights) :
                 /\ ranked_packages' = Some(ranked)
                 /\ IF ranked # <<>>
                    THEN \E c2 \in Carts(TopPackage(ranked).items, requirements[1]) :
                            cart' = Some(c2)
                    ELSE cart' = cart
                 /\ last' = Call("modify_cart", modification, "", DOMAIN cart[1].items)
                 /\ UNCHANGED <<requirements, discovered_items>>
    ELSE \E c2 \in {modify(cart[1], modification, ties) : ties \in TieChoices} :
            /\ cart' = Some(c2)
            /\ last' = Call("modify_cart", modification,
                            FindLine(cart[1], modification.item_id),
                            DOMAIN cart[1].items)
            /\ ranked_packages' =
                  IF ranked_packages = None THEN None
                  ELSE Some(RankedAfterModify(ranked_packages[1], cart[1], modification))
            /\ UNCHANGED <<requirements, discovered_items>>

run_checkout_agent(checkout_data) ==
    IF cart = None
    THEN /\ last' = With(Raised("run_checkout_agent", NoMod), checkout_data)
         /\ UNCHANGED crew
    ELSE LET confirmation == process_checkout(cart[1], checkout_data)
             booked == {confirmation.retailer_confirmations[i].category :
                           i \in 1..Len(confirmation.retailer_confirmations)}
         IN /\ last' = With([Call("run_checkout_agent", NoMod, "", booked)
                               EXCEPT !.error = confirmation.error,
                                      !.confirmation =
                                          IF confirmation.error = "" THEN Some(confirmation)
                                          ELSE None],
                            checkout_data)
            /\ UNCHANGED crew

\* the checkout data a caller may send: valid, and without the terms accepted
CrewCheckouts == {ValidCheckout, [ValidCheckout EXCEPT !.terms_accepted = FALSE]}

\* the package ids a caller may name: those of the ranking, and one that is
\* in no ranking
PackageIds ==
    {UnknownPackage} \cup (IF ranked_packages = None THEN {}
                           ELSE 1..Len(ranked_packages[1]))

Next ==
    \/ run_requirements_analyst /\ UNCHANGED api
    \/ run_discovery_agent /\ UNCHANGED api
    \/ \E w \in CrewWeights : run_ranking_agent(w) /\ UNCHANGED api
    \/ \E package_id \in PackageIds : run_cart_agent(package_id) /\ UNCHANGED api
    \/ \E m \in (IF cart = None THEN {NoMod} ELSE CrewRequests(cart[1])) :
          modify_cart(m) /\ UNCHANGED api
    \/ \E d \in CrewCheckouts : run_checkout_agent(d) /\ UNCHANGED api

Spec == Init /\ [][Next]_vars

-----------------------------------------------------------------------------
(* The API (main.py): one session.  analyze_requirements constructs a crew  *)
(* and registers it under its session_id; every other endpoint looks the    *)
(* session up and answers 404 "Session not found" when it is not            *)
(* registered.  No coroutine of the crew or of its agents ever yields to    *)
(* the event loop, so a handler runs to its end before the next request is  *)
(* served.  A request body is validated against its model before the        *)
(* handler runs; the bodies here are valid.  last.error holds what the      *)
(* handler raised: ValueError is answered 400, any other exception 500.     *)

\* the weights a client may send: none, one weight of the hotels, and the
\* importance of one category
WeightBodies ==
    { EmptyDict,
      [hotels |-> [location_weight |-> 50]],
      [category_importance |-> [flights |-> 100]] }

\* the fields of CategoryWeights with their defaults (None is NoValue)
CategoryWeights ==
    [price_weight |-> 50, trust_weight |-> 25,
     timing_weight |-> NoValue, comfort_weight |-> NoValue,
     location_weight |-> NoValue, amenities_weight |-> NoValue,
     capacity_weight |-> NoValue, equipment_weight |-> NoValue,
     dietary_weight |-> NoValue, service_weight |-> NoValue]

\* the fields of CategoryImportance with their defaults
CategoryImportance ==
    [flights |-> 30, hotels |-> 40, meeting_rooms |-> 15, catering |-> 15]

\* model_dump() of the model with these fields, made from what the client gave
model_dump(fields, given) == Update(fields, given)

\* model_dump(exclude_none=True)
model_dump_exclude_none(fields, given) ==
    LET d == model_dump(fields, given)
    IN [k \in {x \in DOMAIN d : d[x] # NoValue} |-> d[k]]

\* the custom_weights rank_packages makes of the weights it received
CustomWeights(weights) ==
    [k \in DOMAIN weights |->
        IF k = "category_importance"
        THEN model_dump(CategoryImportance, weights[k])
        ELSE model_dump_exclude_none(CategoryWeights, weights[k])]

\* WeightAdjustmentRequest.model_dump(): a key the client did not give is None
\* (the empty dict)
WeightsDump(weights) ==
    [k \in {"category_importance"} \cup CategorySet |->
        IF k \notin DOMAIN weights THEN EmptyDict
        ELSE IF k = "category_importance"
        THEN model_dump(CategoryImportance, weights[k])
        ELSE model_dump(CategoryWeights, weights[k])]

\* CartModificationRequest.model_dump() as the crew and the cart agent read
\* it: the dump has the key new_item_id and no key new_item
ModificationDump(m) ==
    [NoMod EXCEPT !.action = m.action, !.item_id = m.item_id,
                  !.optimization_goal = m.optimization_goal,
                  !.weights = WeightsDump(m.weights)]

\* the ids of the items of a category in a list of items
IdsOf(items, category) ==
    {items[i].item_id : i \in {j \in 1..Len(items) : items[j].category = category}}

\* the modifications a client may send: the hotel of the cart swapped for a
\* discovered hotel named by its id, the hotel line (or a line that is not
\* there) removed, an optimization, new weights, and no body at all
ApiModifications ==
    IF cart = None
    THEN {None, Some([NoModification EXCEPT !.action = "optimize",
                                            !.optimization_goal = "cost"])}
    ELSE LET onCart == {id \in IdsFor(cart[1]) : id[1] = "hotels"}
         IN {None}
            \cup {Some([NoModification EXCEPT !.action = "swap", !.item_id = id,
                                              !.new_item_id = new]) :
                     id \in onCart, new \in IdsOf(discovered_items[1], "hotels")}
            \cup {Some([NoModification EXCEPT !.action = "remove", !.item_id = id]) :
                     id \in onCart \cup {MissingId}}
            \cup {Some([NoModification EXCEPT !.action = "optimize",
                                              !.optimization_goal = "cost"])}
            \cup {Some([NoModification EXCEPT !.action = "adjust_weights",
                                              !.weights = w]) : w \in WeightBodies}

\* the request an endpoint received for a session
Received(op, id) == [NoRequest EXCEPT !.op = op, !.session_id = id]

\* the handler raises HTTPException before it calls the crew
Refused(req, detail) ==
    /\ request' = req
    /\ last' = [Call(req.op, NoMod, "", {}) EXCEPT !.error = detail]
    /\ UNCHANGED <<session_id, crew_instances, crew>>

\* the answer when crew_instances.get(session_id) is None
NotFound(req) == Refused(req, "Session not found")

ApiInit ==
    /\ requirements = None
    /\ discovered_items = None
    /\ ranked_packages = None
    /\ cart = None
    /\ last = NoCall
    /\ session_id = NoSession
    /\ crew_instances = {}
    /\ request = NoRequest

\* the crew is registered before the analysis runs, whether or not it raises
analyze_requirements ==
    /\ session_id = NoSession
    /\ \E id \in SessionIds :
          /\ session_id' = id
          /\ crew_instances' = crew_instances \cup {id}
          /\ request' = Received("analyze_requirements", NoSession)
          /\ run_requirements_analyst

discover_options ==
    \E id \in SessionIds :
        LET req == Received("discover_options", id)
        IN IF id \notin crew_instances THEN NotFound(req)
           ELSE /\ run_discovery_agent
                /\ request' = req
                /\ UNCHANGED <<session_id, crew_instances>>

rank_packages ==
    \E id \in SessionIds, weights \in WeightBodies :
        LET req == [Received("rank_packages", id) EXCEPT !.weights = weights]
        IN IF id \notin crew_instances THEN NotFound(req)
           ELSE /\ run_ranking_agent(CustomWeights(weights))
                /\ request' = req
                /\ UNCHANGED <<session_id, crew_instances>>

cart_build ==
    \E id \in SessionIds, package_id \in PackageIds :
        LET req == [Received("build_cart", id) EXCEPT !.package_id = package_id]
        IN IF id \notin crew_instances THEN NotFound(req)
           ELSE /\ run_cart_agent(package_id)
                /\ request' = req
                /\ UNCHANGED <<session_id, crew_instances>>

cart_modify ==
    \E id \in SessionIds, modification \in ApiModifications :
        LET req == IF modification = None THEN Received("modify_cart", id)
                   ELSE [Received("modify_cart", id)
                           EXCEPT !.modification = modification[1]]
        IN IF id \notin crew_instances THEN NotFound(req)
           ELSE IF modification = None
           THEN Refused(req, "Modification request required")
           ELSE /\ modify_cart(ModificationDump(modification[1]))
                /\ request' = req
                /\ UNCHANGED <<session_id, crew_instances>>

\* a faulty variant: the session is removed whatever the checkout raised
CheckoutAlwaysCleansUp(id) == crew_instances \ {id}

\* crew_instances after the checkout: del crew_instances[session_id] is
\* reached when neither the crew nor the conversion of its confirmations
\* (whose item_total is a line's subtotal, never negative) has raised
AfterCheckout(id) ==
    IF last'.error = "" THEN crew_instances \ {id} ELSE crew_instances

checkout ==
    \E id \in SessionIds,
       checkout_data \in {None} \cup {Some(d) : d \in CheckoutChoices} :
        LET req == [Received("checkout", id) EXCEPT !.checkout_data = checkout_data]
        IN IF id \notin crew_instances THEN NotFound(req)
           ELSE IF checkout_data = None
           THEN Refused(req, "Checkout data required")
           ELSE /\ run_checkout_agent(checkout_data[1])
                /\ request' = req
                /\ crew_instances' = AfterCheckout(id)
                /\ UNCHANGED session_id

\* requirements, discovery and ranking on a crew that is registered when all
\* three have returned; when one raises the crew is dropped
run_full_flow ==
    /\ session_id = NoSession
    /\ request' = Received("run_full_flow", NoSession)
    /\ \/ \E id \in SessionIds, r \in CrewRequirements,
             l \in CrewItemLists \ {<<>>} :
             \E ranked \in Rankings(l, r, EmptyDict) :
                /\ requirements' = Some(r)
                /\ discovered_items' = Some(l)
                /\ ranked_packages' = Some(ranked)
                /\ session_id' = id
                /\ crew_instances' = crew_instances \cup {id}
                /\ last' = Call("run_full_flow", NoMod, "", {})
                /\ UNCHANGED cart
       \/ /\ last' = Raised("run_full_flow", NoMod)
          /\ UNCHANGED <<session_id, crew_instances, crew>>

get_session_state ==
    \E id \in SessionIds :
        LET req == Received("get_session_state", id)
        IN IF id \notin crew_instances THEN NotFound(req)
           ELSE /\ request' = req
                /\ last' = Call("get_session_state", NoMod, "", {})
                /\ UNCHANGED <<session_id, crew_instances, crew>>

delete_session ==
    \E id \in SessionIds :
        LET req == Received("delete_session", id)
        IN IF id \notin crew_instances THEN NotFound(req)
           ELSE /\ request' = req
                /\ crew_instances' = crew_instances \ {id}
                /\ last' = Call("delete_session", NoMod, "", {})
                /\ UNCHANGED <<session_id, crew>>

ApiNext ==
    \/ analyze_requirements
    \/ run_full_flow
    \/ discover_options
    \/ rank_packages
    \/ cart_build
    \/ cart_modify
    \/ checkout
    \/ get_session_state
    \/ delete_session

SpecApi == ApiInit /\ [][ApiNext]_vars

-----------------------------------------------------------------------------
(* RequirementsAnalystAgent.  analyze reads two things: what the model      *)
(* answered (a JSON object, or text that is not JSON) and the user's input, *)
(* of which the code reads what its regular expressions find.  A field of   *)
(* the answer is None when the key is absent or null.                       *)

DigitChar == [n \in 0..9 |-> CHOOSE d \in Digits : DigitVal[d] = n]

RECURSIVE Str(_)
\* str(n) for n >= 0
Str(n) == IF n < 10 THEN <<DigitChar[n]>> ELSE Str(n \div 10) \o <<DigitChar[n % 10]>>

\* f"{num} days"
DaysString(num) == Str(num) \o <<" ", "d", "a", "y", "s">>

Reno == <<"R", "e", "n", "o">>
\* "Location not specified"
LocationNotSpecified ==
    <<"L", "o", "c", "a", "t", "i", "o", "n", " ", "n", "o", "t", " ", "s",
       "p", "e", "c", "i", "f", "i", "e", "d">>

\* not req.get(field), for a number
Falsy(field) == field = None \/ field = Some(0)

\* not req.get(field), for a string
Empty(field) == field = None \/ field = Some(<<>>)

\* what the model may answer: a JSON object whose attendees and budget are
\* absent, zero, negative or positive, whose location is absent, empty or a
\* name and whose duration is absent or "3 days"; or text that is not JSON
LLMOutputs ==
    {None} \cup
    {Some(o) : o \in [attendees : {None, Some(0), Some(0 - 1), Some(2)},
                      budget    : {None, Some(0), Some(0 - 5), Some(50)},
                      location  : {None, Some(<<>>), Some(Reno)},
                      duration  : {None, Some(DaysString(3))}]}

\* what the regular expressions find in the user's input (None: no match):
\* "<n> people", "$<n>", "budget <n>", "in <Location>" and "<n> day"
UserInputs ==
    [attendees : {None, Some(0), Some(2)},
     dollars   : {None, Some(50)},
     budget    : {None, Some(60)},
     location  : {None, Some(Reno)},
     days      : {None, Some(3)}]

_fallback_parse(text) ==
    [attendees |-> IF text.attendees # None THEN text.attendees ELSE Some(50),
     budget    |-> IF text.dollars # None THEN text.dollars ELSE Some(60000),
     location  |-> IF text.location # None THEN text.location
                   ELSE Some(LocationNotSpecified),
     duration  |-> IF text.days # None THEN Some(DaysString(text.days[1]))
                   ELSE Some(DaysString(2))]

_ensure_required_fields(req, original_input) ==
    [attendees |-> IF ~Falsy(req.attendees) THEN req.attendees
                   ELSE IF original_input.attendees # None
                        THEN original_input.attendees ELSE Some(50),
     budget    |-> IF ~Falsy(req.budget) THEN req.budget
                   ELSE IF original_input.dollars # None THEN original_input.dollars
                   ELSE IF original_input.budget # None THEN original_input.budget
                   ELSE Some(50000),
     location  |-> IF ~Empty(req.location) THEN req.location
                   ELSE IF original_input.location # None THEN original_input.location
                   ELSE Some(LocationNotSpecified),
     duration  |-> IF ~Empty(req.duration) THEN req.duration
                   ELSE IF original_input.days # None
                        THEN Some(DaysString(original_input.days[1]))
                        ELSE Some(DaysString(2))]

\* the error _validate_requirements raises ("" if none); req.get(k, 0) of a
\* None is None, which the fields never are after _ensure_required_fields
_validate_requirements(req) ==
    IF req.attendees = None \/ req.attendees[1] <= 0 THEN "ValueError"
    ELSE IF req.budget = None \/ req.budget[1] <= 0 THEN "ValueError"
    ELSE IF Empty(req.location) THEN "ValueError"
    ELSE IF Empty(req.duration) THEN "ValueError"
    ELSE ""

\* analyze, given the model's answer
analyze(output, user_input) ==
    LET parsed == IF output = None THEN _fallback_parse(user_input) ELSE output[1]
        req == _ensure_required_fields(parsed, user_input)
    IN [error |-> _validate_requirements(req), requirements |-> req]

AnalystInit ==
    /\ requirements = None
    /\ discovered_items = None
    /\ ranked_packages = None
    /\ cart = None
    /\ last = NoCall
    /\ session_id = NoSession
    /\ crew_instances = {}
    /\ request = NoRequest

\* the first analysis of a crew
Analyze ==
    /\ last = NoCall
    /\ \E output \in LLMOutputs, user_input \in UserInputs :
          LET result == analyze(output, user_input)
          IN /\ request' = [op |-> "analyze", output |-> output,
                            user_input |-> user_input]
             /\ IF result.error # ""
                THEN /\ last' = Raised("analyze", NoMod)
                     /\ UNCHANGED requirements
                ELSE /\ last' = Call("analyze", NoMod, "", {})
                     /\ requirements' = Some(result.requirements)
             /\ UNCHANGED <<session_id, crew_instances, discovered_items,
                            ranked_packages, cart>>

AnalystNext == Analyze

SpecAnalyst == AnalystInit /\ [][AnalystNext]_vars

-----------------------------------------------------------------------------
(* Properties of the cart agent (SpecCart) *)

Abs(x) == IF x >= 0 THEN x ELSE 0 - x

\* n is num/den rounded to the nearest integer (either way at an exact half)
IsRounded(n, num, den) == Abs(den * n - num) * 2 <= den

LineSum(c) == SumOver([k \in DOMAIN c.items |-> c.items[k].subtotal], DOMAIN c.items)

\* the lines of c whose item has the id
LinesHolding(c, item_id) == {k \in DOMAIN c.items : c.items[k].item.item_id = item_id}

\* the totals of c are those of its own lines
TotalsFromLines(c) ==
    /\ c.subtotal = LineSum(c)
    /\ IsRounded(c.taxes, TaxRate80 * c.subtotal, RateDen)
    /\ IsRounded(c.fees, FeeRate80 * c.subtotal, RateDen)
    /\ IsRounded(c.total, (RateDen + TaxRate80 + FeeRate80) * c.subtotal, RateDen)

\* C1: in every cart, built or modified by any sequence of swap, remove and
\* optimize, the stored total is within one cent (exclusive) of the stored
\* subtotal times 1.1125: |total - subtotal * 89/80| < 1 cent.
TotalWithinACent ==
    cart # None =>
        Abs(RateDen * cart[1].total
              - (RateDen + TaxRate80 + FeeRate80) * cart[1].subtotal) < RateDen

\* a swap has just replaced a line, and the total is not the exact product
TotalWithinACentReached ==
    /\ cart # None
    /\ last.op = "modify" /\ last.mod.action = "swap" /\ last.line # ""
    /\ last.mod.new_item # None
    /\ cart[1].items[last.line].item = last.mod.new_item[1]
    /\ cart[1].items[last.line].item.item_id # last.mod.item_id
    /\ cart[1].subtotal > 0
    /\ RateDen * cart[1].total # (RateDen + TaxRate80 + FeeRate80) * cart[1].subtotal

\* C2: in every cart the stored total equals the stored subtotal plus the
\* stored taxes plus the stored fees.
TotalIsSumOfStoredParts ==
    cart # None =>
        cart[1].total = cart[1].subtotal + cart[1].taxes + cart[1].fees

\* C3: in every cart the subtotal is the sum of the line subtotals of the
\* lines now in the cart, and taxes, fees and total are 8.75%, 2.5% and
\* 111.25% of that subtotal rounded to the cent.
TotalsAreDerived == cart # None => TotalsFromLines(cart[1])

\* a remove has just deleted a line and left others behind
TotalsAreDerivedReached ==
    /\ cart # None
    /\ last.op = "modify" /\ last.mod.action = "remove" /\ last.line # ""
    /\ last.line \notin DOMAIN cart[1].items
    /\ DOMAIN cart[1].items # {}
    /\ cart[1].subtotal > 0

\* the step is a modify call carrying this action on an existing cart
IsModify(action) ==
    /\ cart # None /\ cart' # None
    /\ last'.op = "modify" /\ last'.mod.action = action

\* C7: a swap naming an id held by a line and carrying a new item replaces
\* the item of one line holding the id, keeps that line's quantity, makes its
\* subtotal the new price times the quantity, leaves every other line as it
\* was, and recomputes the totals from the new lines.
SwapHitStep ==
    (/\ IsModify("swap")
     /\ last'.mod.new_item # None
     /\ LinesHolding(cart[1], last'.mod.item_id) # {})
    => \E k \in LinesHolding(cart[1], last'.mod.item_id) :
          LET new_item == last'.mod.new_item[1]
              old == cart[1].items[k]
          IN /\ DOMAIN cart'[1].items = DOMAIN cart[1].items
             /\ cart'[1].items[k] = [item       |-> new_item,
                                      quantity   |-> old.quantity,
                                      unit_price |-> new_item.price,
                                      subtotal   |-> new_item.price * old.quantity]
             /\ \A j \in DOMAIN cart[1].items \ {k} :
                    cart'[1].items[j] = cart[1].items[j]
             /\ TotalsFromLines(cart'[1])

SwapReplacesLine == [][SwapHitStep]_vars

\* a swap has replaced the item of a line that holds more than one unit
SwapReplacesLineReached ==
    /\ cart # None
    /\ last.op = "modify" /\ last.mod.action = "swap" /\ last.line # ""
    /\ last.mod.new_item # None
    /\ last.line \in DOMAIN cart[1].items
    /\ cart[1].items[last.line].item = last.mod.new_item[1]
    /\ cart[1].items[last.line].item.item_id # last.mod.item_id
    /\ cart[1].items[last.line].quantity > 1
    /\ cart[1].items[last.line].subtotal
          = last.mod.new_item[1].price * cart[1].items[last.line].quantity

\* C8: a swap or a remove naming an id that no line holds leaves the whole
\* cart (lines, quantities, subtotal, taxes, fees, total) as it was.
MissStep ==
    (/\ IsModify("swap") \/ IsModify("remove")
     /\ LinesHolding(cart[1], last'.mod.item_id) = {})
    => cart' = cart

MissLeavesCart == [][MissStep]_vars

\* a swap carrying a new item, or a remove, has named an id no line holds, on
\* a cart that has lines
MissLeavesCartReached ==
    /\ cart # None
    /\ last.op = "modify" /\ last.mod.action \in {"swap", "remove"}
    /\ last.mod.item_id = MissingId /\ last.line = ""
    /\ last.mod.action = "swap" => last.mod.new_item # None
    /\ DOMAIN cart[1].items # {}
    /\ cart[1].total > 0

\* C9: a remove naming an id held by a line deletes one line holding it and
\* only that line, leaves the other lines as they were, and the new subtotal
\* is the old one less the deleted line's subtotal; when no line is left,
\* subtotal, taxes, fees and total are all 0.
RemoveHitStep ==
    (/\ IsModify("remove")
     /\ LinesHolding(cart[1], last'.mod.item_id) # {})
    => /\ \E k \in LinesHolding(cart[1], last'.mod.item_id) :
             /\ DOMAIN cart'[1].items = DOMAIN cart[1].items \ {k}
             /\ \A j \in DOMAIN cart'[1].items :
                    cart'[1].items[j] = cart[1].items[j]
             /\ cart'[1].subtotal = cart[1].subtotal - cart[1].items[k].subtotal
       /\ DOMAIN cart'[1].items = {} =>
             /\ cart'[1].subtotal = 0 /\ cart'[1].taxes = 0
             /\ cart'[1].fees = 0 /\ cart'[1].total = 0

RemoveDeletesLine == [][RemoveHitStep]_vars

\* the last line of a cart has just been removed
RemoveDeletesLineReached ==
    /\ cart # None
    /\ last.op = "modify" /\ last.mod.action = "remove" /\ last.line # ""
    /\ DOMAIN cart[1].items = {}
    /\ cart[1].subtotal = 0 /\ cart[1].total = 0

RECURSIVE Pow10(_)
Pow10(n) == IF n = 0 THEN 1 ELSE 10 * Pow10(n - 1)

\* the first integer written in the string s: the decimal value of the
\* leftmost unbroken run of digits; 2 when s holds no digit
FirstInteger(s) ==
    LET digits == {i \in 1..Len(s) : s[i] \in Digits}
    IN IF digits = {} THEN 2
       ELSE LET a == CHOOSE i \in digits : \A j \in digits : i <= j
                b == CHOOSE j \in a..Len(s) :
                        /\ \A k \in a..j : k \in digits
                        /\ j + 1 \notin digits
            IN SumOver([k \in a..b |-> DigitVal[s[k]] * Pow10(b - k)], a..b)

\* C13: build_cart gives the flights line a quantity of attendees, the hotels
\* line ceil(attendees / 2) * days, the meeting_rooms line days and the
\* catering line attendees * days, where days is the first integer found in
\* the duration string, and 2 when the string holds no integer.
BuiltQuantities ==
    (cart # None /\ last.op = "build_cart") =>
        LET attendees == requirements[1].attendees
            days == FirstInteger(requirements[1].duration)
            lines == cart[1].items
        IN /\ DOMAIN lines = CategorySet
           /\ lines["flights"].quantity = attendees
           /\ lines["hotels"].quantity = ((attendees + 1) \div 2) * days
           /\ lines["meeting_rooms"].quantity = days
           /\ lines["catering"].quantity = attendees * days

\* a cart has been built for two attendees and for a duration whose integer
\* has two digits and does not open the string
BuiltQuantitiesReached ==
    /\ cart # None /\ last.op = "build_cart"
    /\ requirements[1].attendees = 2
    /\ requirements[1].duration = <<"d", "1", "0">>
    /\ cart[1].items["hotels"].quantity = 10
    /\ cart[1].items["catering"].quantity = 20

\* C14: every line of every cart, built or modified by swap and remove, has
\* a quantity of at least 1 and a line subtotal of unit_price * quantity.
LinesWellFormed ==
    cart # None =>
        \A k \in DOMAIN cart[1].items :
            /\ cart[1].items[k].quantity \in Nat
            /\ cart[1].items[k].quantity >= 1
            /\ cart[1].items[k].subtotal
                  = cart[1].items[k].unit_price * cart[1].items[k].quantity

\* C12: an optimize request with goal cost, quality or balanced only writes
\* the goal annotation and the note: cart_id, the lines with their items,
\* quantities, unit prices and subtotals, and subtotal, taxes, fees and total
\* are all as they were.
OptimizeStep ==
    (/\ IsModify("optimize")
     /\ last'.mod.optimization_goal \in {"cost", "quality", "balanced"})
    => /\ cart'[1].optimization_applied = last'.mod.optimization_goal
       /\ cart'[1].optimization_note = last'.mod.optimization_goal
       /\ cart'[1].cart_id = cart[1].cart_id
       /\ cart'[1].items = cart[1].items
       /\ cart'[1].subtotal = cart[1].subtotal
       /\ cart'[1].taxes = cart[1].taxes
       /\ cart'[1].fees = cart[1].fees
       /\ cart'[1].total = cart[1].total
       /\ DOMAIN cart'[1] = DOMAIN cart[1]

OptimizeOnlyAnnotates == [][OptimizeStep]_vars

\* a cart with lines has just been optimized for quality
OptimizeOnlyAnnotatesReached ==
    /\ cart # None
    /\ last.op = "modify" /\ last.mod.action = "optimize"
    /\ last.mod.optimization_goal = "quality"
    /\ cart[1].optimization_applied = "quality"
    /\ cart[1].optimization_note = "quality"
    /\ DOMAIN cart[1].items = last.lines
    /\ Cardinality(DOMAIN cart[1].items) > 1
    /\ cart[1].total > 0

-----------------------------------------------------------------------------
(* The ranking agent on its own: rank on a list of discovered items (any   *)
(* number per category, none included) with any of the weight overrides.   *)

\* per category: nothing found, one item, or MaxPerCategory items
ItemLists == {ItemList(n) : n \in [CategorySet -> {0, 1, MaxPerCategory}]}

\* category_importance with all the importance on flights
FlightsOnly == [flights |-> 100, hotels |-> 0, meeting_rooms |-> 0, catering |-> 0]

\* custom_weights: none, flights alone, flights alone with hotels judged on
\* amenities, nothing at all, a partial override of one category, and a
\* category with all weights zero
WeightChoices ==
    { EmptyDict,
      [category_importance |-> FlightsOnly],
      [category_importance |-> FlightsOnly,
       hotels |-> [price_weight |-> 0, trust_weight |-> 0,
                   location_weight |-> 0, amenities_weight |-> 100]],
      [category_importance |->
          [flights |-> 0, hotels |-> 0, meeting_rooms |-> 0, catering |-> 0]],
      [hotels |-> [location_weight |-> 50]],
      [flights |-> [price_weight |-> 0, timing_weight |-> 0,
                    trust_weight |-> 0, comfort_weight |-> 0],
       category_importance |-> [hotels |-> 10]] }

RankInit ==
    /\ requirements \in {Some(r) : r \in ReqChoices}
    /\ discovered_items \in {Some(l) : l \in ItemLists}
    /\ ranked_packages = None
    /\ cart = None
    /\ last = NoCall
    /\ session_id = NoSession
    /\ crew_instances = {}
    /\ request = NoRequest

Rank ==
    /\ ranked_packages = None
    /\ \E w \in WeightChoices :
         \E t \in ScoreTies(discovered_items[1], requirements[1], w) :
           /\ ranked_packages' = Some(rank(discovered_items[1], requirements[1], w, t))
           /\ last' = Call("rank", [NoMod EXCEPT !.weights = w], "", {})
           /\ UNCHANGED <<api, requirements, discovered_items, cart>>

RankNext == Rank

SpecRank == RankInit /\ [][RankNext]_vars

-----------------------------------------------------------------------------
(* Properties of the ranking agent (SpecRank) *)

\* the candidates of a category: the discovered items of the category in list
\* order, or the one placeholder when there is none
Candidates(c) ==
    LET found == SelectSeq(discovered_items[1], LAMBDA it : it.category = c)
    IN IF found = <<>> THEN << _create_placeholder_item(c) >> ELSE found

\* the categories of which nothing was discovered
Missing ==
    {c \in CategorySet :
        \A i \in 1..Len(discovered_items[1]) : discovered_items[1][i].category # c}

\* the place of a candidate in its category's list
At(package, c) == CHOOSE k \in 1..Len(Candidates(c)) : Candidates(c)[k] = package[c]

\* the place of a package among the combinations of the cross product taken
\* in order, flights slowest and catering fastest
Position(package) ==
    1 + ((((At(package, "flights") - 1) * Len(Candidates("hotels"))
            + (At(package, "hotels") - 1)) * Len(Candidates("meeting_rooms"))
            + (At(package, "meeting_rooms") - 1)) * Len(Candidates("catering"))
            + (At(package, "catering") - 1))

Combinations ==
    Len(Candidates("flights")) * Len(Candidates("hotels"))
       * Len(Candidates("meeting_rooms")) * Len(Candidates("catering"))

\* C4: the ranked list is non-increasing in final_score: each package scores
\* at least as much as the one after it.
RankedNonIncreasing ==
    ranked_packages # None =>
        \A i \in 1..(Len(ranked_packages[1]) - 1) :
            ranked_packages[1][i].final_score >= ranked_packages[1][i + 1].final_score

\* a ranking in which a package generated later scores strictly more than,
\* and stands before, one generated earlier
RankedNonIncreasingReached ==
    /\ ranked_packages # None
    /\ \E i, j \in 1..Len(ranked_packages[1]) :
          /\ i < j
          /\ ranked_packages[1][i].package_id > ranked_packages[1][j].package_id
          /\ ranked_packages[1][i].final_score > ranked_packages[1][j].final_score

\* C5: every ranked package has all four category keys; a category of which
\* nothing was discovered holds the placeholder (price 0, not available,
\* rating 0), the same one in every package, and the other categories hold
\* discovered items.
PlaceholdersFillMissing ==
    ranked_packages # None =>
        \A i \in 1..Len(ranked_packages[1]) :
            LET items == ranked_packages[1][i].items
            IN /\ DOMAIN items = CategorySet
               /\ \A c \in Missing :
                     /\ items[c].item_id = <<c, 0>>
                     /\ items[c].category = c
                     /\ items[c].price = 0
                     /\ items[c].availability = FALSE
                     /\ items[c].rating10 = 0
               /\ \A c \in CategorySet \ Missing :
                     \E k \in 1..Len(discovered_items[1]) :
                         /\ discovered_items[1][k] = items[c]
                         /\ items[c].category = c

\* the empty list has been ranked: one package, all four keys placeholders
PlaceholdersFillMissingReached ==
    /\ ranked_packages # None
    /\ discovered_items = Some(<<>>)
    /\ Len(ranked_packages[1]) = 1
    /\ \A c \in CategorySet : ranked_packages[1][1].items[c].availability = FALSE

\* C6: the ranking holds min(50, product of the candidate counts) packages;
\* each takes one candidate from every category's list, and they are exactly
\* the first combinations of the cross product: the package generated n-th
\* is the n-th combination, and no two packages were generated at one place.
FirstCombinations ==
    ranked_packages # None =>
        LET r == ranked_packages[1]
        IN /\ Len(r) = Min(50, Combinations)
           /\ \A i \in 1..Len(r) :
                 /\ DOMAIN r[i].items = CategorySet
                 /\ \A c \in CategorySet :
                       \E k \in 1..Len(Candidates(c)) : Candidates(c)[k] = r[i].items[c]
                 /\ Position(r[i].items) = r[i].package_id
                 /\ r[i].package_id \in 1..Min(50, Combinations)
           /\ \A i, j \in 1..Len(r) : i # j => r[i].package_id # r[j].package_id
           /\ (\A c \in CategorySet : Len(Candidates(c)) = 1) => Len(r) = 1

\* a ranking of more than 50 combinations, cut to 50
FirstCombinationsReached ==
    /\ ranked_packages # None
    /\ Combinations > 50
    /\ Len(ranked_packages[1]) = 50

\* the last call ranked with all the importance on flights
RankedOnFlightsOnly ==
    /\ ranked_packages # None
    /\ last.op = "rank"
    /\ "category_importance" \in DOMAIN last.mod.weights
    /\ last.mod.weights["category_importance"] = FlightsOnly

\* C11: ranked with category_importance {flights: 100, hotels: 0,
\* meeting_rooms: 0, catering: 0}, the package of rank 1 has a flights
\* category score that no package of the ranking exceeds, and its final
\* score is that flights score, whatever its other category scores are.
TopHasBestFlight ==
    RankedOnFlightsOnly =>
        LET r == ranked_packages[1]
        IN /\ r # <<>>
           /\ r[1].rank = 1
           /\ r[1].final_score = r[1].category_scores["flights"]
           /\ \A i \in 1..Len(r) :
                  r[1].category_scores["flights"] >= r[i].category_scores["flights"]

\* ranked on flights alone, the first package beats another on flights while
\* a package ranked below it scores more on hotels
TopHasBestFlightReached ==
    /\ RankedOnFlightsOnly
    /\ \E i, j \in 2..Len(ranked_packages[1]) :
          LET r == ranked_packages[1]
          IN /\ r[1].category_scores["flights"] > r[i].category_scores["flights"]
             /\ r[1].category_scores["hotels"] < r[j].category_scores["hotels"]

-----------------------------------------------------------------------------
(* Properties of the session (Spec) *)

\* the line build_cart makes of an item of category c
BuiltLine(item, c, req) ==
    [item       |-> item,
     quantity   |-> _calculate_quantity(c, req),
     unit_price |-> item.price,
     subtotal   |-> item.price * _calculate_quantity(c, req)]

\* C10: modify_cart with adjust_weights leaves discovered_items as they were,
\* makes ranked_packages a ranking of them under the new weights, and makes
\* the cart the one built from the first package of that ranking, a package
\* of rank 1 that none outscores: a line per category of the package, holding
\* the package's item in the builder's quantity, with fresh totals and no
\* optimization mark, whatever lines the cart held before.
AdjustWeightsStep ==
    (/\ cart # None
     /\ last'.op = "modify_cart" /\ last'.error = ""
     /\ last'.mod.action = "adjust_weights")
    => /\ discovered_items' = discovered_items
       /\ requirements' = requirements
       /\ \E r \in Rankings(discovered_items[1], requirements[1], last'.mod.weights) :
              ranked_packages' = Some(r)
       /\ ranked_packages'[1] # <<>>
       /\ cart' # None
       /\ LET top == ranked_packages'[1][1]
          IN /\ top.rank = 1
             /\ \A i \in 1..Len(ranked_packages'[1]) :
                    top.final_score >= ranked_packages'[1][i].final_score
             /\ DOMAIN cart'[1].items = DOMAIN top.items
             /\ \A c \in DOMAIN top.items :
                    cart'[1].items[c] = BuiltLine(top.items[c], c, requirements[1])
             /\ cart'[1].optimization_applied = ""
             /\ TotalsFromLines(cart'[1])

AdjustWeightsRebuilds == [][AdjustWeightsStep]_vars

\* new weights have arrived at a cart that had lost a line and held the
\* default hotel; the cart is whole again and holds the other hotel, now
\* ranked first
AdjustWeightsRebuildsReached ==
    /\ cart # None /\ ranked_packages # None
    /\ last.op = "modify_cart" /\ last.mod.action = "adjust_weights"
    /\ last.mod.weights # EmptyDict
    /\ last.lines # CategorySet
    /\ DOMAIN cart[1].items = CategorySet
    /\ cart[1].items["hotels"].item.item_id = <<"hotels", 2>>
    /\ ranked_packages[1][1].items["hotels"].item_id = <<"hotels", 2>>
    /\ Len(ranked_packages[1]) > 1

\* every stage result present has the results of the stages before it
StagesInOrder ==
    /\ cart # None => ranked_packages # None
    /\ ranked_packages # None => discovered_items # None
    /\ discovered_items # None => requirements # None

\* the step calls an operation whose prerequisite stage has left no result
EarlyCall ==
    \/ last'.op = "run_discovery_agent" /\ requirements = None
    \/ last'.op = "run_ranking_agent" /\ discovered_items = None
    \/ last'.op = "run_cart_agent" /\ ranked_packages = None
    \/ last'.op \in {"modify_cart", "run_checkout_agent"} /\ cart = None

EarlyCallStep ==
    EarlyCall => /\ last'.error = "ValueError"
                 /\ UNCHANGED <<api, requirements, discovered_items, ranked_packages, cart>>

\* C15: in every state of a session a cart implies ranked packages, ranked
\* packages imply discovered items and discovered items imply requirements;
\* and discovery called without requirements, ranking without discovered
\* items, cart building without ranked packages, and modify or checkout
\* without a cart raise ValueError and leave the session as it was.
PipelineOrder == []StagesInOrder /\ [][EarlyCallStep]_vars

\* checkout has been refused in a session that has ranked but built no cart
PipelineOrderReached ==
    /\ last.op = "run_checkout_agent" /\ last.error = "ValueError"
    /\ cart = None
    /\ ranked_packages # None /\ discovered_items # None /\ requirements # None

\* C20: once discovery has run, run_ranking_agent completes whatever
\* categories the discovered list leaves empty, all four included: it raises
\* nothing and leaves a ranking of at least one package.
RankingAcceptsEmptyCategories ==
    (last.op = "run_ranking_agent" /\ discovered_items # None)
    => /\ last.error = ""
       /\ ranked_packages # None
       /\ ranked_packages[1] # <<>>

-----------------------------------------------------------------------------
(* Properties of the API (SpecApi) *)

Endpoints ==
    {"discover_options", "rank_packages", "build_cart", "modify_cart",
     "checkout", "get_session_state", "delete_session"}

\* the step serves a request for a session that is not registered
UnregisteredRequest ==
    /\ request'.op \in Endpoints
    /\ request'.session_id \notin crew_instances

\* C16: the checkout endpoint removes the session from crew_instances exactly
\* when the checkout succeeds, and a checkout that fails leaves the session
\* registered and its cart as it was; a request for a session that is not
\* registered (rank, cart build or modify, checkout, session get or delete)
\* is answered "Session not found" and changes nothing; a session that has
\* left the registry never returns to it, so none is checked out twice.
CheckoutStep ==
    /\ (request'.op = "checkout" /\ request'.session_id \in crew_instances)
          => /\ last'.error = "" <=> request'.session_id \notin crew_instances'
             /\ last'.error # "" => crew_instances' = crew_instances
             /\ cart' = cart
             /\ last'.error = "" => cart # None
    /\ UnregisteredRequest
          => /\ last'.error = "Session not found"
             /\ UNCHANGED <<session_id, crew_instances, crew>>
    /\ (session_id # NoSession /\ session_id \notin crew_instances)
          => UNCHANGED <<session_id, crew_instances>>
    /\ (session_id \in crew_instances /\ session_id \notin crew_instances')
          => /\ request'.op \in {"checkout", "delete_session"}
             /\ last'.error = ""

DefaultsKept(weights, custom_weights) ==
    /\ \A c \in CategorySet \cap DOMAIN weights :
          \A k \in DOMAIN default_category_weights[c] \ DOMAIN weights[c] :
              WeightsFor(c, custom_weights)[k] = default_category_weights[c][k]
    /\ "category_importance" \in DOMAIN weights
          => \A c \in CategorySet \ DOMAIN weights["category_importance"] :
                 ImportanceFor(custom_weights)[c] = default_category_importance[c]

\* C17: when rank_packages, or modify_cart with adjust_weights on a session
\* that has a cart, receives weights that give only some keys, the ranking
\* runs with every other key at the built-in default of its own category
\* (hotels: price_weight 20, trust_weight 40) and every other category
\* importance at 30/40/15/15.
PartialWeightsKeepDefaults ==
    /\ (request.op = "rank_packages" /\ last.op = "run_ranking_agent"
          /\ last.error # "ValueError")
          => /\ last.error = ""
             /\ DefaultsKept(request.weights, last.mod.weights)
    /\ (request.op = "modify_cart" /\ last.op = "modify_cart"
          /\ request.modification.action = "adjust_weights"
          /\ last.error # "ValueError")
          => /\ last.error = ""
             /\ DefaultsKept(request.modification.weights, last.mod.weights)

\* C18: after modify_cart has served a request with action "swap", an item_id
\* that was on a line of the cart and the new_item_id of a discovered item,
\* that line holds the item whose id is new_item_id.
SwapByIdTakesEffect ==
    (/\ request.op = "modify_cart" /\ last.op = "modify_cart" /\ last.error = ""
     /\ request.modification.action = "swap"
     /\ request.modification.new_item_id # NoId
     /\ last.line # "")
    => /\ cart # None
       /\ last.line \in DOMAIN cart[1].items
       /\ cart[1].items[last.line].item.item_id = request.modification.new_item_id

-----------------------------------------------------------------------------
(* Properties of the requirements analyst (SpecAnalyst) *)

\* the model's answer was a JSON object without attendees, budget or
\* location, or with attendees or budget zero
AnsweredWithout ==
    /\ request.op = "analyze" /\ request.output # None
    /\ \/ Falsy(request.output[1].attendees)
       \/ Falsy(request.output[1].budget)
       \/ Empty(request.output[1].location)

\* C19: requirements whose attendees or budget is missing or zero, or whose
\* location is missing, are rejected with an error by the analysis, and the
\* session holds no requirements made of them.
MissingFieldsRejected ==
    AnsweredWithout => (last.error = "ValueError" /\ requirements = None)

-----------------------------------------------------------------------------
(* ScoringService and the scoring steps of the ranking agent, each called  *)
(* on its own.  last holds the call: its arguments and what it returned.   *)
(* A quotient is held as the fraction n/d, so a division by zero shows as  *)
(* d = 0.                                                                  *)

\* a faulty variant: the quotient is taken whatever the total is
NormalizeUnguarded(weights) ==
    [k \in DOMAIN weights |-> Frac(weights[k], SumOver(weights, DOMAIN weights))]

\* ScoringService.normalize_weights
normalize_weights(weights) ==
    LET total == SumOver(weights, DOMAIN weights)
    IN IF total = 0 THEN [k \in DOMAIN weights |-> Frac(0, 1)]
       ELSE [k \in DOMAIN weights |-> Frac(weights[k], total)]

\* ScoringService.price_to_score: price in cents, budget in dollars and
\* category_ratio in hundredths, so that budget * category_ratio is the
\* expected price in cents
price_to_score(price, budget, category_ratio) ==
    LET expected_price == budget * category_ratio
    IN IF price <= 0 THEN Frac(50, 1)
       ELSE IF 2 * price <= expected_price THEN Frac(100, 1)
       ELSE IF price <= expected_price
            THEN Frac(100 * expected_price - 30 * price, expected_price)
       ELSE IF 2 * price <= 3 * expected_price
            THEN Frac(70 * expected_price - 40 * (price - expected_price),
                      expected_price)
       ELSE Frac(Max(0, 60 * expected_price - 30 * (2 * price - 3 * expected_price)),
                 2 * expected_price)

\* prices are scored at 0, at 1 cent and at every PriceGrain cents up to
\* MaxPriceSteps grains; the ratios are the default 0.25 and 0.30
ScoringPrices == {0, 1} \cup {k * PriceGrain : k \in 1..MaxPriceSteps}
CategoryRatios == {25, 30}

\* the weight maps handed to normalize_weights: the empty map and the maps of
\* two weights, the all-zero one among them
WeightMaps ==
    {EmptyDict} \cup [{"price_weight", "trust_weight"} -> {0, 30, 70}]

\* every category with all its component weights zero
ZeroWeights ==
    [c \in CategorySet |-> [k \in DOMAIN default_category_weights[c] |-> 0]]

\* custom_weights of the scoring calls: those of the rankings, every weight
\* of every category zero, and that with no importance on any category
ScoringWeights ==
    WeightChoices \cup
    { ZeroWeights,
      Update(ZeroWeights,
             [category_importance |->
                 [flights |-> 0, hotels |-> 0, meeting_rooms |-> 0, catering |-> 0]]) }

\* the items a category may hold in a package
ScoringItems(c) ==
    {_create_placeholder_item(c)} \cup {Catalog(c, i) : i \in 1..MaxPerCategory}

\* packages of one placeholder or one of the first two catalogue items per category
ScoringPackages ==
    {[flights |-> f, hotels |-> h, meeting_rooms |-> m, catering |-> k] :
        f \in {_create_placeholder_item("flights"), Catalog("flights", 1)},
        h \in {_create_placeholder_item("hotels"), Catalog("hotels", 1), Catalog("hotels", 2)},
        m \in {_create_placeholder_item("meeting_rooms"), Catalog("meeting_rooms", 2)},
        k \in {_create_placeholder_item("catering"), Catalog("catering", 1)}}

ScoringInit ==
    /\ requirements = None
    /\ discovered_items = None
    /\ ranked_packages = None
    /\ cart = None
    /\ last = NoCall
    /\ session_id = NoSession
    /\ crew_instances = {}
    /\ request = NoRequest

NormalizeWeights ==
    /\ last = NoCall
    /\ \E weights \in WeightMaps :
          last' = [op |-> "normalize_weights", weights |-> weights,
                   result |-> normalize_weights(weights)]
    /\ UNCHANGED <<api, crew>>

ScoreItem ==
    /\ last = NoCall
    /\ \E c \in CategorySet, req \in ReqChoices, w \in ScoringWeights, up \in BOOLEAN :
         \E item \in ScoringItems(c) :
            last' = [op |-> "_score_item", item |-> item, category |-> c,
                     requirements |-> req, custom_weights |-> w,
                     result |-> _score_item(item, c, req, w,
                                    [items |-> IF up THEN {Scored(item)} ELSE {},
                                     packages |-> {}])]
    /\ UNCHANGED <<api, crew>>

\* total_importance is the divisor _score_package ends with
ScorePackage ==
    /\ last = NoCall
    /\ \E package \in ScoringPackages, req \in ReqChoices, w \in ScoringWeights,
          up \in BOOLEAN, pup \in BOOLEAN :
         LET item_ties == IF up THEN {Scored(package[c]) : c \in DOMAIN package} ELSE {}
             scores == CategoryScores(package, req, w,
                                      [items |-> item_ties, packages |-> {}])
             ties == [items |-> item_ties,
                      packages |-> IF pup THEN {scores} ELSE {}]
         IN last' = [op |-> "_score_package", package |-> package,
                     requirements |-> req, custom_weights |-> w,
                     total_importance |-> PackageScore(scores, w).d,
                     result |-> _score_package(package, req, w, ties)]
    /\ UNCHANGED <<api, crew>>

PriceToScore ==
    /\ last = NoCall
    /\ \E price \in ScoringPrices, budget \in Budgets, category_ratio \in CategoryRatios :
          last' = [op |-> "price_to_score", price |-> price, budget |-> budget,
                   category_ratio |-> category_ratio,
                   result |-> price_to_score(price, budget, category_ratio)]
    /\ UNCHANGED <<api, crew>>

ScoringNext == NormalizeWeights \/ ScoreItem \/ ScorePackage \/ PriceToScore

SpecScoring == ScoringInit /\ [][ScoringNext]_vars

-----------------------------------------------------------------------------
(* Properties of the scoring steps (SpecScoring) *)

\* every component weight of the scored item is zero
AllComponentWeightsZero ==
    LET components == Components(last.item, last.category, last.requirements,
                                 WeightsFor(last.category, last.custom_weights))
    IN \A i \in DOMAIN components : components[i][2] = 0

\* the importance of the scored package's categories sums to zero
NoImportance ==
    SumOver([c \in DOMAIN last.package |->
                Get(ImportanceFor(last.custom_weights), c, 0)],
            DOMAIN last.package) = 0

\* C21: no weights make scoring divide by zero: normalize_weights never
\* divides by a zero total and returns the all-zero map for a map that sums
\* to 0; an item whose component weights are all 0 scores 0; a package whose
\* category importance sums to 0 is divided by 100 and has final_score 0.
ZeroWeightsScoreZero ==
    /\ last.op = "normalize_weights" =>
          /\ \A k \in DOMAIN last.result : last.result[k].d # 0
          /\ DOMAIN last.result = DOMAIN last.weights
          /\ SumOver(last.weights, DOMAIN last.weights) = 0 =>
                \A k \in DOMAIN last.result : last.result[k].n = 0
    /\ (last.op = "_score_item" /\ AllComponentWeightsZero) => last.result = 0
    /\ last.op = "_score_package" =>
          /\ last.total_importance # 0
          /\ NoImportance =>
                /\ last.total_importance = 100
                /\ last.result.final_score = 0

\* a package of discovered items, each scoring more than 0, has been scored
\* with no importance on any category
ZeroWeightsScoreZeroReached ==
    /\ last.op = "_score_package"
    /\ NoImportance
    /\ \A c \in DOMAIN last.package : last.result.category_scores[c] > 0
    /\ last.result.final_score = 0

-----------------------------------------------------------------------------
(* Properties of the cart agent (SpecCart): what the random values reach *)

\* the fields of a cart that the package, the requirements and the
\* modifications are to determine
Determined(c) ==
    [items |-> c.items, subtotal |-> c.subtotal, taxes |-> c.taxes,
     fees |-> c.fees, total |-> c.total]

\* the carts another run may hold where this run holds c: the same cart but
\* for the values drawn at random, the cart id and the savings
OtherRuns(c) ==
    {[c EXCEPT !.cart_id = id, !.savings = s] :
        id \in CartIds,
        s \in {_calculate_savings(p, savings_pct(i)) :
                  p \in SelectablePackages, i \in CartIds}}

\* C22: two runs of build_cart on the same package and requirements, followed
\* by the same modifications, agree on items, quantities, line subtotals,
\* subtotal, taxes, fees and total: whatever id and savings the other run
\* drew, its build_cart and each of its modify calls, rounding as this run
\* rounds, leave these fields as this run has them.
RunsAgree ==
    [][ /\ last'.op = "build_cart" =>
              \E p \in SelectablePackages, t \in TieChoices :
                 /\ cart'[1] = build_cart(cart'[1].cart_id, p, requirements[1], t)
                 /\ \A id \in CartIds :
                       Determined(build_cart(id, p, requirements[1], t))
                          = Determined(cart'[1])
        /\ last'.op = "modify" =>
              \E t \in TieChoices :
                 /\ cart'[1] = modify(cart[1], last'.mod, t)
                 /\ \A c2 \in OtherRuns(cart[1]) :
                       Determined(modify(c2, last'.mod, t)) = Determined(cart'[1])
      ]_vars

\* a cart built with the second draw (other id, other savings) has had a line
\* swapped and then a line removed
RunsAgreeReached ==
    /\ cart # None
    /\ cart[1].cart_id = "cart_2"
    /\ cart[1].savings # None
    /\ cart[1].savings # _calculate_savings([c \in CategorySet |-> Catalog(c, 1)], 10)
    /\ last.op = "modify"
    /\ last.mod.action = "remove"
    /\ last.line # ""
    /\ \E c \in DOMAIN cart[1].items : cart[1].items[c].item.item_id[2] = 9

\* the step was a swap or a remove that found its line, and so ended in
\* _recalculate_totals
RecalculatedStep ==
    /\ cart # None
    /\ last'.op = "modify"
    /\ last'.mod.action \in {"swap", "remove"}
    /\ last'.line # ""
    /\ last'.mod.action = "swap" => last'.mod.new_item # None

\* C23: recomputing a cart's totals again from the same items map changes
\* nothing: after a modification that recomputed them, a second
\* _recalculate_totals (rounding as the first did) returns the cart with the
\* same subtotal, taxes, fees and total.
RecalculationIdempotent ==
    [][ RecalculatedStep =>
           \E t \in TieChoices :
              /\ cart'[1] = modify(cart[1], last'.mod, t)
              /\ _recalculate_totals(cart'[1], t) = cart'[1]
              /\ _recalculate_totals(_recalculate_totals(cart'[1], t), t)
                    = _recalculate_totals(cart'[1], t)
      ]_vars

\* a swap has put a cheaper flight on the flights line and the totals have
\* been recomputed to less than they were
RecalculationIdempotentReached ==
    /\ cart # None
    /\ last.op = "modify"
    /\ last.mod.action = "swap"
    /\ last.line = "flights"
    /\ last.mod.new_item # None
    /\ "flights" \in DOMAIN cart[1].items
    /\ cart[1].items["flights"].item.item_id = <<"flights", 9>>
    /\ cart[1].taxes > 0
    /\ cart[1].total = cart[1].subtotal + cart[1].taxes + cart[1].fees

-----------------------------------------------------------------------------
(* Properties of the checkout (Spec) *)

\* the step is a checkout of an existing cart
CheckoutOfCart ==
    /\ cart # None
    /\ last'.op = "run_checkout_agent"
    /\ last' # last

\* C24: process_checkout leaves the cart it is given as it was (items,
\* quantities, totals), and when it succeeds it returns one retailer
\* confirmation for every line of the cart and no other, each with item_total
\* equal to the line's subtotal, and total_cost equal to the cart's total.
CheckoutReadsCart ==
    [][ CheckoutOfCart =>
           /\ cart' = cart
           /\ last'.error = "" =>
                 LET confirmation == last'.confirmation[1]
                     confirmations == confirmation.retailer_confirmations
                 IN /\ Len(confirmations) = Cardinality(DOMAIN cart[1].items)
                    /\ \A k \in DOMAIN cart[1].items :
                          Cardinality({i \in 1..Len(confirmations) :
                                          confirmations[i].category = k}) = 1
                    /\ \A i \in 1..Len(confirmations) :
                          /\ confirmations[i].category \in DOMAIN cart[1].items
                          /\ confirmations[i].item_total
                                = cart[1].items[confirmations[i].category].subtotal
                    /\ confirmation.total_cost = cart[1].total
      ]_vars

\* a cart that lost a line has been checked out: three confirmations, and a
\* total_cost above the sum of their item totals
CheckoutReadsCartReached ==
    /\ cart # None
    /\ last.op = "run_checkout_agent"
    /\ last.error = ""
    /\ last.confirmation # None
    /\ Cardinality(DOMAIN cart[1].items) = 3
    /\ Len(last.confirmation[1].retailer_confirmations) = 3
    /\ last.confirmation[1].total_cost = cart[1].total
    /\ last.confirmation[1].total_cost > cart[1].subtotal

\* the fraction a is at least the fraction b (denominators positive)
AtLeast(a, b) == a.n * b.d >= b.n * a.d

\* C25: for a positive reference price budget * category_ratio, price_to_score
\* is non-increasing in the price over all prices >= 0, is 100 for every
\* price at or below half the reference, and lies in 0..100, reaching 0 for
\* very large prices.
PriceScoreNonIncreasing ==
    last.op = "price_to_score" =>
        LET reference == last.budget * last.category_ratio
        IN reference > 0 =>
              /\ AtLeast(last.result, Frac(0, 1))
              /\ AtLeast(Frac(100, 1), last.result)
              /\ 2 * last.price <= reference => last.result = Frac(100, 1)
              /\ last.price >= 3 * reference => last.result.n = 0
              /\ \A lower \in {q \in ScoringPrices : q <= last.price} :
                    AtLeast(price_to_score(lower, last.budget, last.category_ratio),
                            last.result)

-----------------------------------------------------------------------------
(* Properties of the ranking agent (SpecRank), continued *)

\* C26: rank is assigned after the sort: the returned list carries the ranks
\* 1..n in list order, each once, and packages with equal final_score stand
\* in the order in which they were generated.
RankIsPlaceInList ==
    ranked_packages # None =>
        LET r == ranked_packages[1]
        IN /\ \A i \in 1..Len(r) : r[i].rank = i
           /\ {r[i].rank : i \in 1..Len(r)} = 1..Len(r)
           /\ \A i, j \in 1..Len(r) :
                 (i < j /\ r[i].final_score = r[j].final_score)
                    => r[i].package_id < r[j].package_id

\* a ranking the sort has reordered, in which two packages with the same
\* final score stand next to each other
RankIsPlaceInListReached ==
    /\ ranked_packages # None
    /\ \E i \in 1..(Len(ranked_packages[1]) - 1) :
          /\ ranked_packages[1][i].final_score = ranked_packages[1][i + 1].final_score
          /\ ranked_packages[1][i].package_id < ranked_packages[1][i + 1].package_id
    /\ \E i, j \in 1..Len(ranked_packages[1]) :
          /\ i < j
          /\ ranked_packages[1][i].package_id > ranked_packages[1][j].package_id
          /\ ranked_packages[1][i].rank = i

-----------------------------------------------------------------------------
(* CorporateRetreatOrchestrator.process_request, one stage per step.  The  *)
(* five agents are collaborators: each answers with an AgentResponse       *)
(* [success, data], and discovery, which catches nothing, may raise.       *)
(* requirements, discovered_items, ranked_packages and cart hold           *)
(* session_data's requirements, discovered_items, ranked_items and cart;   *)
(* request holds the call and the stage it is at; last holds its results   *)
(* and session_data's checkout_plan.                                       *)

StageList == <<"requirements", "discovery", "ranking", "cart", "checkout">>

\* what the agents may answer; data is None or Some(value)
AgentResponse(success, data) == [success |-> success, data |-> data]
Vendors == {<<>>, <<"hotel">>, <<"hotel", "catering">>}
RequirementsResponses ==
    {AgentResponse(TRUE, Some("50 managers")), AgentResponse(FALSE, None)}
DiscoveryResponses == {AgentResponse(TRUE, Some(items)) : items \in Vendors}
RankingResponses(items) ==
    {AgentResponse(TRUE, Some(items)), AgentResponse(FALSE, Some(<<>>))}
CartResponses(ranked) ==
    {AgentResponse(TRUE, Some([items |-> ranked])), AgentResponse(FALSE, None)}
CheckoutResponses(c) ==
    {AgentResponse(TRUE, Some([steps |-> c.items])), AgentResponse(FALSE, None)}

\* results as process_request creates it; agents is the dict in insertion order
NewResults == [success |-> FALSE, agents |-> <<>>, summary |-> FALSE, errors |-> <<>>]

\* results["agents"][stage] = self._format_agent_result(result)
_format_agent_result(results, stage, response) ==
    [results EXCEPT !.agents = Append(@, [stage |-> stage,
                                          success |-> response.success,
                                          data_available |-> response.data # None])]

Failed(results, error) == [results EXCEPT !.errors = Append(@, error)]

OrchestratorInit ==
    /\ requirements = None
    /\ discovered_items = None
    /\ ranked_packages = None
    /\ cart = None
    /\ last = [op |-> "init", results |-> NewResults, checkout_plan |-> None]
    /\ request = [op |-> "", auto_checkout |-> FALSE, at |-> "returned"]
    /\ session_id = NoSession
    /\ crew_instances = {}

AtStage(stage) == request.op = "process_request" /\ request.at = stage

\* the stage ends the run
Return(results) ==
    /\ last' = [last EXCEPT !.op = "process_request", !.results = results]
    /\ request' = [request EXCEPT !.at = "returned"]

\* the stage hands over to the next
Proceed(results, next) ==
    /\ last' = [last EXCEPT !.op = "process_request", !.results = results]
    /\ request' = [request EXCEPT !.at = next]

process_request ==
    /\ request.at = "returned"
    /\ \E auto_checkout \in BOOLEAN :
          request' = [op |-> "process_request", auto_checkout |-> auto_checkout,
                      at |-> "requirements"]
    /\ last' = [last EXCEPT !.op = "process_request", !.results = NewResults]
    /\ UNCHANGED <<crew, session_id, crew_instances>>

RequirementsStage ==
    /\ AtStage("requirements")
    /\ \E req_result \in RequirementsResponses :
         LET results == _format_agent_result(last.results, "requirements", req_result)
         IN IF ~req_result.success
            THEN /\ Return(Failed(results, "Requirements analysis failed"))
                 /\ UNCHANGED requirements
            ELSE /\ Proceed(results, "discovery")
                 /\ requirements' = req_result.data
    /\ UNCHANGED <<discovered_items, ranked_packages, cart, session_id, crew_instances>>

\* a faulty variant: an empty list of vendors passes
DiscoveryReportedSuccess(disc_result) == disc_result.success

\* the negation of 'not disc_result.success or not disc_result.data'
DiscoveryPassed(disc_result) ==
    disc_result.success /\ disc_result.data # None /\ disc_result.data[1] # <<>>

DiscoveryStage ==
    /\ AtStage("discovery")
    /\ \/ \E disc_result \in DiscoveryResponses :
            LET results == _format_agent_result(last.results, "discovery", disc_result)
            IN IF ~DiscoveryPassed(disc_result)
               THEN /\ Return(Failed(results, "Vendor discovery failed or no vendors found"))
                    /\ UNCHANGED discovered_items
               ELSE /\ Proceed(results, "ranking")
                    /\ discovered_items' = disc_result.data
       \/ /\ Return(Failed(last.results, "Orchestration error"))
          /\ UNCHANGED discovered_items
    /\ UNCHANGED <<requirements, ranked_packages, cart, session_id, crew_instances>>

\* rank_items is handed disc_result.data, the list just stored
RankingStage ==
    /\ AtStage("ranking")
    /\ \E rank_result \in RankingResponses(discovered_items[1]) :
         LET results == _format_agent_result(last.results, "ranking", rank_result)
         IN IF ~rank_result.success
            THEN /\ Return(Failed(results, "Vendor ranking failed"))
                 /\ UNCHANGED ranked_packages
            ELSE /\ Proceed(results, "cart")
                 /\ ranked_packages' = rank_result.data
    /\ UNCHANGED <<requirements, discovered_items, cart, session_id, crew_instances>>

CartStage ==
    /\ AtStage("cart")
    /\ \E cart_result \in CartResponses(ranked_packages[1]) :
         LET results == _format_agent_result(last.results, "cart", cart_result)
         IN IF ~cart_result.success
            THEN /\ Return(Failed(results, "Cart building failed"))
                 /\ UNCHANGED cart
            ELSE /\ Proceed(results, "checkout")
                 /\ cart' = cart_result.data
    /\ UNCHANGED <<requirements, discovered_items, ranked_packages, session_id,
                   crew_instances>>

\* after a checkout that succeeded: the simulation when auto_checkout is set,
\* then success and the summary, and the return
CheckoutStage ==
    /\ AtStage("checkout")
    /\ \E checkout_result \in CheckoutResponses(cart[1]) :
         LET results == _format_agent_result(last.results, "checkout", checkout_result)
             simulated == IF request.auto_checkout
                          THEN _format_agent_result(results, "simulation",
                                   AgentResponse(TRUE, checkout_result.data))
                          ELSE results
         IN IF ~checkout_result.success
            THEN Return(Failed(results, "Checkout orchestration failed"))
            ELSE /\ last' = [last EXCEPT
                                !.op = "process_request",
                                !.results = [simulated EXCEPT !.success = TRUE,
                                                              !.summary = TRUE],
                                !.checkout_plan = checkout_result.data]
                 /\ request' = [request EXCEPT !.at = "returned"]
    /\ UNCHANGED <<crew, session_id, crew_instances>>

OrchestratorNext ==
    \/ process_request
    \/ RequirementsStage
    \/ DiscoveryStage
    \/ RankingStage
    \/ CartStage
    \/ CheckoutStage

SpecOrchestrator == OrchestratorInit /\ [][OrchestratorNext]_vars

-----------------------------------------------------------------------------
(* Properties of the orchestrator (SpecOrchestrator) *)

\* the stages results["agents"] holds, in the order they were entered
StagesEntered == [i \in 1..Len(last.results.agents) |-> last.results.agents[i].stage]

\* the stage the run is at has started once it has answered; the stages that
\* have started are those entered
Succeeded(i) == last.results.agents[i].success

\* C27: process_request runs requirements, discovery, ranking, cart, checkout
\* in this order; a stage has started only if every stage before it reported
\* success, and ranking only if discovery returned a non-empty list; a stage
\* that fails ends the run with an entry in errors; results.success is true
\* only if all five stages succeeded.
StagesInFixedOrder ==
    LET agents == last.results.agents
        n == Min(Len(agents), Len(StageList))
    IN /\ \A i \in 1..n : agents[i].stage = StageList[i]
       /\ Len(agents) > Len(StageList) =>
             /\ Len(agents) = Len(StageList) + 1
             /\ agents[Len(agents)].stage = "simulation"
       /\ \A i \in 1..(Len(agents) - 1) : Succeeded(i)
       /\ request.at \in {StageList[i] : i \in 1..Len(StageList)} =>
             /\ request.at = StageList[Len(agents) + 1]
             /\ \A i \in 1..Len(agents) : Succeeded(i)
             /\ last.results.errors = <<>>
       /\ Len(agents) >= 3 => (discovered_items # None /\ discovered_items[1] # <<>>)
       /\ (\E i \in 1..Len(agents) : ~Succeeded(i)) =>
             /\ request.at = "returned"
             /\ last.results.errors # <<>>
             /\ ~last.results.success
       /\ last.results.success =>
             /\ Len(agents) >= Len(StageList)
             /\ \A i \in 1..Len(StageList) : Succeeded(i)
             /\ request.at = "returned"

\* a run has failed at the cart stage after three stages succeeded, on an
\* orchestrator whose earlier run went through
StagesInFixedOrderReached ==
    /\ request.op = "process_request"
    /\ request.at = "returned"
    /\ Len(last.results.agents) = 4
    /\ ~last.results.agents[4].success
    /\ last.results.errors = <<"Cart building failed">>
    /\ last.checkout_plan # None

-----------------------------------------------------------------------------
(* Properties of the cart agent (SpecCart): the lines and the session *)

\* C28: in every cart reached by build_cart followed by swap, remove and
\* optimize modifications, the item stored under the category key c has
\* category c.
LinesHoldOwnCategory ==
    cart # None =>
        \A c \in DOMAIN cart[1].items : cart[1].items[c].item.category = c

\* the step is a swap, a remove or an optimize on the session's cart
CartOnlyModification ==
    /\ cart # None
    /\ last'.op = "modify_cart"
    /\ last'.error = ""
    /\ last'.mod.action \in {"swap", "remove", "optimize"}

\* C29: swap, remove and optimize change the session's cart only: the
\* requirements, the discovered items and the ranked packages, the items of
\* the package the cart was built from among them, are after the
\* modification what they were before.
ModifyChangesCartOnly ==
    [][ CartOnlyModification =>
           /\ requirements' = requirements
           /\ discovered_items' = discovered_items
           /\ ranked_packages' = ranked_packages
      ]_vars

\* a swap has replaced the flight of the cart, and a ranked package still
\* holds the flight the cart was built with next to the cart's other items
ModifyChangesCartOnlyReached ==
    /\ cart # None /\ ranked_packages # None
    /\ last.op = "modify_cart"
    /\ last.mod.action = "swap"
    /\ last.line = "flights"
    /\ DOMAIN cart[1].items = CategorySet
    /\ cart[1].items["flights"].item.item_id = <<"flights", 9>>
    /\ \E i \in 1..Len(ranked_packages[1]) :
          /\ ranked_packages[1][i].items["flights"].item_id = last.mod.item_id
          /\ \A c \in CategorySet \ {"flights"} :
                ranked_packages[1][i].items[c] = cart[1].items[c].item

-----------------------------------------------------------------------------
(* Properties of the API (SpecApi): the registry after an analysis *)

\* C30: once an analyze-requirements request has completed, every session in
\* the registry crew_instances has its requirements set, and a request whose
\* analysis failed has left no session registered.
RegisteredSessionsAnalyzed ==
    request.op # "" =>
        /\ \A id \in crew_instances : requirements # None
        /\ (request.op = "analyze_requirements" /\ last.error # "") =>
              session_id \notin crew_instances

=============================================================================
